---- MODULE Spec2Model ----
(***************************************************************************)
(* Model of the MinIO server configuration store                           *)
(* (internal/config/config.go): KV/KVS lists, the registries, the          *)
(* directive parser, the Config store operations SetKVS, GetKVS, DelKVS,   *)
(* RedactSensitiveInfo and the precedence resolver ResolveConfigParam.     *)
(*                                                                         *)
(* Strings are TLA+ strings; the Go string functions the code calls are    *)
(* modelled character by character on them.                                *)
(***************************************************************************)
EXTENDS Integers, Sequences, FiniteSets, TLC

(***************************************************************************)
(* Go string functions used by the code.                                   *)
(***************************************************************************)
Char(s, i) == SubSeq(s, i, i)

\* strings.HasPrefix
HasPrefix(s, p) == Len(p) <= Len(s) /\ SubSeq(s, 1, Len(p)) = p

\* strings.HasSuffix
HasSuffix(s, p) == Len(p) <= Len(s) /\ SubSeq(s, Len(s) - Len(p) + 1, Len(s)) = p

\* The least element of a set of positions, 0 for the empty set.
First(S) == IF S = {} THEN 0 ELSE CHOOSE i \in S : \A j \in S : i <= j

\* strings.Index, 1-based; 0 when sub does not occur in s (Go: -1).
Index(s, sub) ==
    First({i \in 1..(Len(s) - Len(sub) + 1) : SubSeq(s, i, i + Len(sub) - 1) = sub})

\* s cut around the separator found at position i (0: not found).
SplitAt(s, sep, i) ==
    IF i = 0 THEN <<s>>
    ELSE <<SubSeq(s, 1, i - 1), SubSeq(s, i + Len(sep), Len(s))>>

\* strings.SplitN(s, sep, 2): one element when sep does not occur.
SplitN2(s, sep) == SplitAt(s, sep, Index(s, sep))

\* unicode.IsSpace on the characters a directive line can hold.
IsSpace(c) == c \in {" ", "\t"}

RECURSIVE TrimLeft(_)
TrimLeft(s) ==
    IF Len(s) > 0 /\ IsSpace(Char(s, 1)) THEN TrimLeft(SubSeq(s, 2, Len(s))) ELSE s

RECURSIVE TrimRight(_)
TrimRight(s) ==
    IF Len(s) > 0 /\ IsSpace(Char(s, Len(s))) THEN TrimRight(SubSeq(s, 1, Len(s) - 1)) ELSE s

\* strings.TrimSpace
TrimSpace(s) == TrimRight(TrimLeft(s))

\* strings.TrimPrefix / strings.TrimSuffix
TrimPrefix(s, p) == IF HasPrefix(s, p) THEN SubSeq(s, Len(p) + 1, Len(s)) ELSE s

TrimSuffix(s, p) == IF HasSuffix(s, p) THEN SubSeq(s, 1, Len(s) - Len(p)) ELSE s

\* strings.Fields: the maximal runs of non-space characters of s, in order.
RECURSIVE FieldsFrom(_, _, _)
FieldsFrom(s, i, cur) ==
    IF i > Len(s) THEN (IF cur = "" THEN <<>> ELSE <<cur>>)
    ELSE IF IsSpace(Char(s, i))
         THEN (IF cur = "" THEN <<>> ELSE <<cur>>) \o FieldsFrom(s, i + 1, "")
         ELSE FieldsFrom(s, i + 1, cur \o Char(s, i))

Fields(s) == FieldsFrom(s, 1, "")

LowerLetters == "abcdefghijklmnopqrstuvwxyz"

UpperLetters == "ABCDEFGHIJKLMNOPQRSTUVWXYZ"

UpperAt(c, i) == IF i = 0 THEN c ELSE Char(UpperLetters, i)

ToUpperChar(c) == UpperAt(c, Index(LowerLetters, c))

\* strings.ToUpper
RECURSIVE ToUpper(_)
ToUpper(s) ==
    IF s = "" THEN "" ELSE ToUpperChar(Char(s, 1)) \o ToUpper(SubSeq(s, 2, Len(s)))

\* strings.Join
RECURSIVE Join(_, _)
Join(strs, sep) ==
    IF Len(strs) = 0 THEN ""
    ELSE IF Len(strs) = 1 THEN strs[1]
    ELSE strs[1] \o sep \o Join(Tail(strs), sep)

\* sort.Ints: the elements of a list in increasing order.
RemoveAt(xs, i) == SubSeq(xs, 1, i - 1) \o SubSeq(xs, i + 1, Len(xs))

RECURSIVE SortInts(_)
SortFrom(xs, m) == <<xs[m]>> \o SortInts(RemoveAt(xs, m))

SortInts(xs) ==
    IF Len(xs) = 0 THEN <<>>
    ELSE SortFrom(xs, CHOOSE i \in DOMAIN xs : \A j \in DOMAIN xs : xs[i] <= xs[j])

(***************************************************************************)
(* Constants of the package.                                               *)
(***************************************************************************)
Default == "_"

Enable == "enable"

Comment == "comment"

EnableOn == "on"

EnableOff == "off"

SubSystemSeparator == ":"

KvSeparator == "="

KvSpaceSeparator == " "

KvComment == "#"

KvDoubleQuote == "\""

KvSingleQuote == "'"

EnvPrefix == "MINIO_"

RedactedMarker == "*redacted*"

CredentialsSubSys == "credentials"

SiteSubSys == "site"

ScannerSubSys == "scanner"

CrawlerSubSys == "crawler"

IdentityOpenIDSubSys == "identity_openid"

NotifyWebhookSubSys == "notify_webhook"

\* The registered sub-systems.  The model registers five of the sub-systems
\* of the source's set: two single-target ones without a state key, a
\* dynamic one, the resolvable multi-target one and a multi-target one with
\* a state key.
SubSystems ==
    {CredentialsSubSys, SiteSubSys, ScannerSubSys, IdentityOpenIDSubSys, NotifyWebhookSubSys}

SubSystemsDynamic == {ScannerSubSys}

SubSystemsSingleTargets == {CredentialsSubSys, SiteSubSys, ScannerSubSys}

\* resolvableSubsystems holding every registered sub-system.
AllSubSystems == SubSystems

resolvableSubsystems == {IdentityOpenIDSubSys}

ValueSourceAbsent == 0

ValueSourceDef == 1

ValueSourceCfg == 2

ValueSourceEnv == 3

(***************************************************************************)
(* KV and KVS: a KVS is a sequence of records [Key, Value].                *)
(***************************************************************************)
KV(k, v) == [Key |-> k, Value |-> v]

\* The position of the first entry of kvs with the key, 0 when none has it.
FirstHit(kvs, key) == First({i \in DOMAIN kvs : kvs[i].Key = key})

LookupAt(kvs, i) ==
    IF i = 0 THEN [v |-> "", ok |-> FALSE] ELSE [v |-> kvs[i].Value, ok |-> TRUE]

\* KVS.Lookup: value of the first entry with the key, and whether found.
Lookup(kvs, key) == LookupAt(kvs, FirstHit(kvs, key))

\* KVS.Get: the value Lookup finds, the empty string when it finds none.
Get(kvs, key) == Lookup(kvs, key).v

SetAt(kvs, key, value, i) ==
    IF i = 0 THEN Append(kvs, KV(key, value)) ELSE [kvs EXCEPT ![i] = KV(key, value)]

\* Set without the search for the key: always append.
SetAppend(kvs, key, value) == Append(kvs, KV(key, value))

\* KVS.Set: overwrite the first entry with the key in place, else append.
Set(kvs, key, value) == SetAt(kvs, key, value, FirstHit(kvs, key))

DeleteAt(kvs, i) == IF i = 0 THEN kvs ELSE RemoveAt(kvs, i)

\* Delete that removes every entry from the first with the key on.
DeleteFrom(kvs, key) ==
    IF FirstHit(kvs, key) = 0 THEN kvs ELSE SubSeq(kvs, 1, FirstHit(kvs, key) - 1)

\* KVS.Delete: remove the first entry with the key.
Delete(kvs, key) == DeleteAt(kvs, FirstHit(kvs, key))

\* KVS.Clone: a copy with its own backing array.
CloneKVS(kvs) == kvs

\* KVS.Empty
Empty(kvs) == Len(kvs) = 0

\* KVS.Keys: the keys in order, the comment key appended when absent.
Keys(kvs) ==
    LET ks == [i \in DOMAIN kvs |-> kvs[i].Key]
    IN  IF \E i \in DOMAIN kvs : kvs[i].Key = Comment THEN ks ELSE Append(ks, Comment)

(***************************************************************************)
(* The Metadata Registry.  Its tables are filled once at start-up by       *)
(* RegisterDefaultKVS, RegisterHelpSubSys and RegisterHelpDeprecatedSubSys; *)
(* the tables registered here are the input of those calls.                *)
(***************************************************************************)
HelpKV(k, optional, sensitive) == [Key |-> k, Optional |-> optional, Sensitive |-> sensitive]

DefaultCredentialKVS == <<KV("access_key", "minioadmin"), KV("secret_key", "minioadmin")>>

DefaultSiteKVS == <<KV("name", ""), KV("region", "")>>

\* The kvsMap handed to RegisterDefaultKVS.
RegisteredDefaultKVS ==
    [k \in SubSystems |->
        CASE k = CredentialsSubSys -> DefaultCredentialKVS
          [] k = SiteSubSys -> DefaultSiteKVS
          [] k = ScannerSubSys -> <<KV("delay", "10")>>
          [] k = IdentityOpenIDSubSys -> <<KV("config_url", ""), KV("claim_name", "policy")>>
          [] k = NotifyWebhookSubSys ->
                <<KV(Enable, EnableOff), KV("endpoint", ""), KV("auth_token", "")>>]

\* HelpSubSysMap: per sub-system the key descriptors, and under "" the
\* sub-systems in their declaration order.
HelpSubSysMap ==
    [k \in SubSystems \cup {""} |->
        CASE k = "" ->
                <<HelpKV(SiteSubSys, FALSE, FALSE), HelpKV(ScannerSubSys, FALSE, FALSE),
                  HelpKV(IdentityOpenIDSubSys, FALSE, FALSE),
                  HelpKV(NotifyWebhookSubSys, FALSE, FALSE),
                  HelpKV(CredentialsSubSys, FALSE, FALSE)>>
          [] k = CredentialsSubSys ->
                <<HelpKV("access_key", FALSE, FALSE), HelpKV("secret_key", FALSE, TRUE)>>
          [] k = SiteSubSys ->
                <<HelpKV("name", TRUE, FALSE), HelpKV("region", TRUE, FALSE)>>
          [] k = ScannerSubSys -> <<HelpKV("delay", TRUE, FALSE)>>
          [] k = IdentityOpenIDSubSys ->
                <<HelpKV("config_url", FALSE, FALSE), HelpKV("claim_name", TRUE, FALSE)>>
          [] k = NotifyWebhookSubSys ->
                <<HelpKV("endpoint", FALSE, FALSE), HelpKV("auth_token", TRUE, TRUE)>>]

\* HelpDeprecatedSubSysMap: the deprecated sub-systems.
HelpDeprecatedSubSysMap ==
    [k \in {CrawlerSubSys} |-> HelpKV(CrawlerSubSys, FALSE, FALSE)]

\* A Go map read: the zero value (a nil KVS, a nil help list) when the key
\* is missing.
KVSOf(kvsMap, k) == IF k \in DOMAIN kvsMap THEN kvsMap[k] ELSE <<>>

HelpOf(k) == IF k \in DOMAIN HelpSubSysMap THEN HelpSubSysMap[k] ELSE <<>>

(***************************************************************************)
(* State.                                                                  *)
(***************************************************************************)
VARIABLES
    DefaultKVS, \* the registered default KVS table (a global of the package)
    cfg,        \* the Config store c: sub-system -> target -> KVS
    environ,    \* the process environment: name -> value, for the set names
    op,         \* the last call made on the store and its argument
    before,     \* the store (or KVS) as it was when that call was made
    ret,        \* what that call returned
    snap,       \* the snapshot a reader holds: what cp = c.Clone() returned
    shared,     \* the sub-systems whose target map is one map in c and in snap
    kvList,     \* a KVS of its own, built from the empty KVS by Set and Delete
    tv,         \* a timedValue: its TTL and the managed value and lastUpdate
    mu,         \* the RWMutex of the timedValue: who holds it for reading, for writing
    callers,    \* per goroutine its place in timedValue.Get, its v and err, what Get returned
    now         \* the clock

\* The variables of the store and those of the timedValue.
svars == <<DefaultKVS, cfg, environ, op, before, ret, snap, shared, kvList>>

tvars == <<tv, mu, callers, now>>

vars == <<DefaultKVS, cfg, environ, op, before, ret, snap, shared, kvList, tv, mu, callers, now>>

\* A Config with no entries, and the targets of a sub-system of a Config
\* (a nil map when the sub-system is missing).
EmptyConfig == [k \in {} |-> <<>>]

TargetsOf(c, subSys) == IF subSys \in DOMAIN c THEN c[subSys] ELSE EmptyConfig

HasTarget(c, subSys, tgt) == subSys \in DOMAIN c /\ tgt \in DOMAIN c[subSys]

\* The store other as seen after a call left the store c1 behind it: a
\* target map that the two stores share is the same in both.
Seen(other, sh, c1) ==
    [s \in DOMAIN other |-> IF s \in sh /\ s \in DOMAIN c1 THEN c1[s] ELSE other[s]]

\* m[t] = v on a map m.
MapSet(m, t, v) == [x \in DOMAIN m \cup {t} |-> IF x = t THEN v ELSE m[x]]

\* delete(m, t) leaving the map as it is.
MapKeep(m, t) == m

\* delete(m, t) on a map m.
MapDelete(m, t) == [x \in DOMAIN m \ {t} |-> m[x]]

\* New: every registered sub-system with its default KVS as default target.
New(defaultKVS) ==
    [k \in SubSystems |-> [t \in {Default} |-> KVSOf(defaultKVS, k)]]

\* The result of a call: how it ended (ok, error: a returned error, panic:
\* a run-time panic), the error message, and the values it returned.
Result(status, err) ==
    [status |-> status, err |-> err, dynamic |-> FALSE, targets |-> <<>>,
     value |-> "", cs |-> ValueSourceAbsent, config |-> EmptyConfig, names |-> {}]

(***************************************************************************)
(* The directive parser.                                                   *)
(***************************************************************************)
\* One pair of quotes q trimmed from v.
Unquote(v, q) == TrimSuffix(TrimPrefix(v, q), q)

\* madmin.SanitizeValue: trim spaces, then one pair of double quotes, then
\* one pair of single quotes.
SanitizeValue(v) == Unquote(Unquote(TrimSpace(v), KvDoubleQuote), KvSingleQuote)

\* The indexes at which "key=" first occurs in input, one per key that
\* occurs, in the order of keys.
RECURSIVE ValueIndexes(_, _)
IndexIfFound(i) == IF i = 0 THEN <<>> ELSE <<i>>

ValueIndexes(input, keys) ==
    IF Len(keys) = 0 THEN <<>>
    ELSE IndexIfFound(Index(input, Head(keys) \o KvSeparator))
         \o ValueIndexes(input, Tail(keys))

\* input cut at the sorted indexes, each piece trimmed.
CutAt(input, valueIndexes) ==
    [i \in DOMAIN valueIndexes |->
        IF i + 1 <= Len(valueIndexes)
        THEN TrimSpace(SubSeq(input, valueIndexes[i], valueIndexes[i + 1] - 1))
        ELSE TrimSpace(SubSeq(input, valueIndexes[i], Len(input)))]

\* madmin.KvFields: cut input at the first occurrence of each "key=" of the
\* given keys; what precedes the first cut is dropped.
KvFields(input, keys) == CutAt(input, SortInts(ValueIndexes(input, keys)))

SubSysResult(subSys, inputs, tgt, err) ==
    [subSys |-> subSys, inputs |-> inputs, tgt |-> tgt, err |-> err]

\* GetSubSys once the line is split at its first space (inputs) and its
\* first token at the separator (subSystemValue).
GetSubSysOf(s, inputs, subSystemValue) ==
    IF subSystemValue[1] \notin SubSystems
    THEN SubSysResult(subSystemValue[1], inputs, Default, "unknown sub-system " \o s)
    ELSE IF Len(inputs) = 1
    THEN SubSysResult(subSystemValue[1], inputs, Default, "")
    ELSE IF subSystemValue[1] \in SubSystemsSingleTargets /\ Len(subSystemValue) = 2
    THEN SubSysResult(subSystemValue[1], inputs, Default,
             "sub-system '" \o subSystemValue[1] \o "' only supports single target")
    ELSE SubSysResult(subSystemValue[1], inputs,
             IF Len(subSystemValue) = 2 THEN subSystemValue[2] ELSE Default, "")

GetSubSysIn(s, inputs) == GetSubSysOf(s, inputs, SplitN2(inputs[1], SubSystemSeparator))

\* GetSubSys: the sub-system, the directive split at its first space, and
\* the target of a directive; err is "" when it returns no error.
GetSubSys(s) ==
    IF Len(s) = 0
    THEN SubSysResult("", <<>>, Default, "input arguments cannot be empty")
    ELSE GetSubSysIn(s, SplitN2(s, KvSpaceSeparator))

\* The loop of SetKVS over the fields: builds kvs, remembering the last key
\* (prevK); a field without "=" continues the value of prevK, and is an
\* error when there is none.
RECURSIVE ParseFields(_, _, _)
ParseField(fields, kvs, prevK, kv) ==
    IF Len(kv) = 1 /\ prevK # ""
    THEN ParseFields(Tail(fields),
             Set(kvs, prevK, Join(<<Get(kvs, prevK), SanitizeValue(kv[1])>>, KvSpaceSeparator)),
             prevK)
    ELSE IF Len(kv) = 2
    THEN ParseFields(Tail(fields), Set(kvs, kv[1], SanitizeValue(kv[2])), kv[1])
    ELSE [kvs |-> kvs, err |-> "key '" \o kv[1] \o "', cannot have empty value"]

ParseFields(fields, kvs, prevK) ==
    IF Len(fields) = 0 THEN [kvs |-> kvs, err |-> ""]
    ELSE ParseField(fields, kvs, prevK, SplitN2(Head(fields), KvSeparator))

\* A KVS with every default key it lacks appended.
RECURSIVE FillDefaults(_, _)
FillDefaults(kvs, defKVS) ==
    IF Len(defKVS) = 0 THEN kvs
    ELSE FillDefaults(IF Lookup(kvs, Head(defKVS).Key).ok THEN kvs
                      ELSE Set(kvs, Head(defKVS).Key, Head(defKVS).Value),
                      Tail(defKVS))

\* The merge loop of SetKVS: every parsed entry but the comment is set.
RECURSIVE SetAllButComment(_, _)
SetAllButComment(currKVS, kvs) ==
    IF Len(kvs) = 0 THEN currKVS
    ELSE SetAllButComment(IF Head(kvs).Key = Comment THEN currKVS
                          ELSE Set(currKVS, Head(kvs).Key, Head(kvs).Value),
                          Tail(kvs))

\* Enabled without the look at the state key.
AlwaysEnabled(currKVS, enableRequired) == TRUE

\* Whether the help loop of SetKVS takes the target for enabled.
Enabled(currKVS, enableRequired) ==
    IF enableRequired THEN Get(currKVS, Enable) = EnableOn ELSE TRUE

\* The help loop of SetKVS: the first key of the help list that is not
\* optional and empty while the target is enabled, "" when there is none.
RECURSIVE FirstMissing(_, _, _)
FirstMissing(hkvs, currKVS, enableRequired) ==
    IF Len(hkvs) = 0 THEN ""
    ELSE IF /\ Lookup(currKVS, Head(hkvs).Key).v = ""
            /\ ~Head(hkvs).Optional
            /\ Enabled(currKVS, enableRequired)
         THEN Head(hkvs).Key
         ELSE FirstMissing(Tail(hkvs), currKVS, enableRequired)

\* The KVS SetKVS builds from the fields, with the implicit state.
WithImplicitEnable(kvs, defKVS) ==
    IF ~Lookup(kvs, Enable).ok /\ Lookup(defKVS, Enable).ok
    THEN Set(kvs, Enable, EnableOn)
    ELSE kvs

\* CurrKVS without the look at the stored KVS.
CurrKVSDefaults(c, subSys, tgt, defKVS) == CloneKVS(defKVS)

\* The KVS SetKVS merges the parsed kvs onto: the stored one with its
\* missing defaults, or a copy of the defaults.
CurrKVS(c, subSys, tgt, defKVS) ==
    IF HasTarget(c, subSys, tgt)
    THEN FillDefaults(CloneKVS(c[subSys][tgt]), defKVS)
    ELSE CloneKVS(defKVS)

SetComment(currKVS, comment) ==
    IF comment.ok THEN Set(currKVS, Comment, comment.v) ELSE currKVS

\* The merge of SetKVS: the parsed entries, the comment last.
MergeKVS(currKVS, kvs) == SetComment(SetAllButComment(currKVS, kvs), Lookup(kvs, Comment))

Merged(status, err, g, currKVS) ==
    [status |-> status, err |-> err, subSys |-> g.subSys, tgt |-> g.tgt, currKVS |-> currKVS]

\* SetKVS from the parsed fields to the merged KVS.
MergeParsed(c, g, defKVS, parsed) ==
    IF parsed.err # "" THEN Merged("error", parsed.err, g, <<>>)
    ELSE Merged("ok", "", g,
             MergeKVS(CurrKVS(c, g.subSys, g.tgt, defKVS),
                      WithImplicitEnable(parsed.kvs, defKVS)))

MergeFields(c, g, defKVS, fields) ==
    IF Len(fields) = 0
    THEN Merged("error", "sub-system '" \o g.subSys \o "' cannot have empty keys", g, <<>>)
    ELSE MergeParsed(c, g, defKVS, ParseFields(fields, <<>>, ""))

MergeInto(c, g, defKVS) ==
    IF g.err # "" THEN Merged("error", g.err, g, <<>>)
    ELSE IF Len(g.inputs) < 2
    THEN Merged("panic", "index out of range [1] with length 1", g, <<>>)
    ELSE MergeFields(c, g, defKVS, KvFields(g.inputs[2], Keys(defKVS)))

MergeSubSys(c, g, defaultKVS) == MergeInto(c, g, KVSOf(defaultKVS, g.subSys))

\* The first part of Config.SetKVS(s, defaultKVS) on the store c: the
\* directive parsed and merged onto the stored KVS (currKVS), or the error.
MergedKVS(c, s, defaultKVS) == MergeSubSys(c, GetSubSys(s), defaultKVS)

NotOptional(key, subSys) ==
    "'" \o key \o "' is not optional for '" \o subSys
    \o "' sub-system, please check '" \o subSys \o "' documentation"

SetResult(status, err, dynamic, c) ==
    [status |-> status, err |-> err, dynamic |-> dynamic, cfg |-> c]

\* CheckAndStore with the merged KVS stored before the required keys are
\* looked at.
StoreThenCheck(c, m, missing) ==
    IF missing # ""
    THEN SetResult("error", NotOptional(missing, m.subSys), FALSE,
             [c EXCEPT ![m.subSys] = MapSet(@, m.tgt, m.currKVS)])
    ELSE SetResult("ok", "", m.subSys \in SubSystemsDynamic,
             [c EXCEPT ![m.subSys] = MapSet(@, m.tgt, m.currKVS)])

\* CheckAndStore with the merged KVS stored as the only target of the
\* sub-system.
StoreAlone(c, m, missing) ==
    IF missing # "" THEN SetResult("error", NotOptional(missing, m.subSys), FALSE, c)
    ELSE IF m.subSys \notin DOMAIN c
    THEN SetResult("panic", "assignment to entry in nil map", FALSE, c)
    ELSE SetResult("ok", "", m.subSys \in SubSystemsDynamic,
             [c EXCEPT ![m.subSys] = [t \in {m.tgt} |-> m.currKVS]])

\* The end of SetKVS: the error for a missing required key, else the merged
\* KVS stored under the sub-system and target.
CheckAndStore(c, m, missing) ==
    IF missing # "" THEN SetResult("error", NotOptional(missing, m.subSys), FALSE, c)
    ELSE IF m.subSys \notin DOMAIN c
    THEN SetResult("panic", "assignment to entry in nil map", FALSE, c)
    ELSE SetResult("ok", "", m.subSys \in SubSystemsDynamic,
             [c EXCEPT ![m.subSys] = MapSet(@, m.tgt, m.currKVS)])

SetMerged(c, m, defaultKVS) ==
    IF m.status # "ok" THEN SetResult(m.status, m.err, FALSE, c)
    ELSE CheckAndStore(c, m,
             FirstMissing(HelpOf(m.subSys), m.currKVS,
                          Lookup(KVSOf(defaultKVS, m.subSys), Enable).ok))

\* Config.SetKVS(s, defaultKVS) on the store c: the status, the error, the
\* dynamic flag and the store afterwards.
SetKVS(c, s, defaultKVS) == SetMerged(c, MergedKVS(c, s, defaultKVS), defaultKVS)

DelResult(status, err, c) == [status |-> status, err |-> err, cfg |-> c]

\* DelTarget without the test that the target is stored.
DelTargetUnchecked(c, s, subSystemValue) ==
    IF subSystemValue[1] \notin SubSystems
    THEN DelResult("ok", "", MapDelete(c, subSystemValue[1]))
    ELSE DelResult("ok", "",
             [c EXCEPT ![subSystemValue[1]] =
                 MapDelete(@, IF Len(subSystemValue) = 2 THEN subSystemValue[2] ELSE Default)])

\* DelTarget with the sub-system deleted instead of its target.
DelTargetSubSys(c, s, subSystemValue) ==
    IF subSystemValue[1] \notin SubSystems
    THEN DelResult("ok", "", MapDelete(c, subSystemValue[1]))
    ELSE IF Len(subSystemValue) = 2 /\ Len(subSystemValue[2]) = 0
    THEN DelResult("error", "sub-system target '" \o s \o "' cannot be empty", c)
    ELSE IF ~HasTarget(c, subSystemValue[1],
                       IF Len(subSystemValue) = 2 THEN subSystemValue[2] ELSE Default)
    THEN DelResult("error", "sub-system " \o s \o " already deleted", c)
    ELSE DelResult("ok", "", MapDelete(c, subSystemValue[1]))

\* DelKVS once its only token is split at the separator.
DelTarget(c, s, subSystemValue) ==
    IF subSystemValue[1] \notin SubSystems
    THEN DelResult("ok", "", MapDelete(c, subSystemValue[1]))
    ELSE IF Len(subSystemValue) = 2 /\ Len(subSystemValue[2]) = 0
    THEN DelResult("error", "sub-system target '" \o s \o "' cannot be empty", c)
    ELSE IF ~HasTarget(c, subSystemValue[1],
                       IF Len(subSystemValue) = 2 THEN subSystemValue[2] ELSE Default)
    THEN DelResult("error", "sub-system " \o s \o " already deleted", c)
    ELSE DelResult("ok", "",
             [c EXCEPT ![subSystemValue[1]] =
                 MapDelete(@, IF Len(subSystemValue) = 2 THEN subSystemValue[2] ELSE Default)])

DelFields(c, s, inputs) ==
    IF Len(inputs) > 1 THEN DelResult("error", "invalid number of arguments " \o s, c)
    ELSE IF Len(inputs) = 0 THEN DelResult("panic", "index out of range [0] with length 0", c)
    ELSE DelTarget(c, s, SplitN2(inputs[1], SubSystemSeparator))

\* Config.DelKVS(s) on the store c: the status, the error and the store
\* afterwards.
DelKVS(c, s) ==
    IF Len(s) = 0 THEN DelResult("error", "input arguments cannot be empty", c)
    ELSE DelFields(c, s, Fields(s))

(***************************************************************************)
(* Reading the store.                                                      *)
(***************************************************************************)
Target(subSystem, kvs) == [SubSystem |-> subSystem, KVS |-> kvs]

\* The orders in which a range loop can visit the keys of a Go map.
Orders(S, n) == {o \in [1..n -> S] : \A i, j \in 1..n : o[i] = o[j] => i = j}

MapOrders(m) == Orders(DOMAIN m, Cardinality(DOMAIN m))

\* The entry GetKVS adds for a sub-system whose default target is empty or
\* missing.
DefaultTarget(c, key, defaultKVS) ==
    IF Empty(KVSOf(TargetsOf(c, key), Default))
    THEN <<Target(key, KVSOf(defaultKVS, key))>>
    ELSE <<>>

TargetName(key, k) == IF k # Default THEN key \o SubSystemSeparator \o k ELSE key

\* The targets GetKVS lists for one sub-system key, its map visited in the
\* given order: the entry for an empty default target, then every stored
\* target with its missing defaults.
SubSysTargets(c, key, defaultKVS, order) ==
    DefaultTarget(c, key, defaultKVS)
    \o [i \in DOMAIN order |->
            Target(TargetName(key, order[i]),
                   FillDefaults(c[key][order[i]], KVSOf(defaultKVS, key)))]

\* The lists the loop of GetKVS over kvsOrder can build for a prefix.
RECURSIVE PrefixTargets(_, _, _, _)
KeyTargets(c, key, defaultKVS, rest) ==
    {SubSysTargets(c, key, defaultKVS, o) \o r :
        o \in MapOrders(TargetsOf(c, key)), r \in rest}

PrefixTargets(c, kvsOrder, subSysPrefix, defaultKVS) ==
    IF Len(kvsOrder) = 0 THEN {<<>>}
    ELSE IF ~HasPrefix(Head(kvsOrder).Key, subSysPrefix)
    THEN PrefixTargets(c, Tail(kvsOrder), subSysPrefix, defaultKVS)
    ELSE KeyTargets(c, Head(kvsOrder).Key, defaultKVS,
             PrefixTargets(c, Tail(kvsOrder), subSysPrefix, defaultKVS))

\* kvsOrder of GetKVS: the sub-systems in help order, then the deprecated
\* ones in the order their map is visited.
KvsOrders ==
    {HelpOf("") \o [i \in DOMAIN o |-> HelpDeprecatedSubSysMap[o[i]]] :
        o \in MapOrders(HelpDeprecatedSubSysMap)}

GetResult(status, err, targets) == [status |-> status, err |-> err, targets |-> targets]

\* Found without the test for a prefix.
FoundExact(subSystemValue) == subSystemValue[1] \in SubSystems

\* The test of GetKVS for a known sub-system or a prefix of one.
Found(subSystemValue) ==
    \/ subSystemValue[1] \in SubSystems
    \/ /\ \E k \in SubSystems : HasPrefix(k, subSystemValue[1])
       /\ Len(subSystemValue) = 1

\* GetKVS once its only token is split at the separator.
GetTargets(c, s, defaultKVS, inputs, subSystemValue) ==
    IF ~Found(subSystemValue) THEN {GetResult("error", "unknown sub-system " \o s, <<>>)}
    ELSE IF Len(subSystemValue) = 1
    THEN {GetResult("ok", "", ts) :
             ts \in UNION {PrefixTargets(c, ko, subSystemValue[1], defaultKVS) :
                              ko \in KvsOrders}}
    ELSE IF Len(subSystemValue[2]) = 0
    THEN {GetResult("error", "sub-system target '" \o s \o "' cannot be empty", <<>>)}
    ELSE IF ~HasTarget(c, subSystemValue[1], subSystemValue[2])
    THEN {GetResult("error", "sub-system target '" \o s \o "' doesn't exist", <<>>)}
    ELSE {GetResult("ok", "",
              <<Target(inputs[1],
                       FillDefaults(c[subSystemValue[1]][subSystemValue[2]],
                                    KVSOf(defaultKVS, subSystemValue[1])))>>)}

GetFields(c, s, defaultKVS, inputs) ==
    IF Len(inputs) > 1 THEN {GetResult("error", "invalid number of arguments " \o s, <<>>)}
    ELSE IF Len(inputs) = 0
    THEN {GetResult("panic", "index out of range [0] with length 0", <<>>)}
    ELSE GetTargets(c, s, defaultKVS, inputs, SplitN2(inputs[1], SubSystemSeparator))

\* Config.GetKVS(s, defaultKVS) on the store c: the results it can return
\* (one for each order in which the maps can be visited).
GetKVS(c, s, defaultKVS) ==
    IF Len(s) = 0 THEN {GetResult("error", "input cannot be empty", <<>>)}
    ELSE GetFields(c, s, defaultKVS, Fields(s))

\* Config.Clone: New, then every sub-system of c replaced by a copy of its
\* targets.  The sub-systems c lacks keep the entry New gave them, whose
\* KVS shares the backing array of the default KVS table.
Clone(c, defaultKVS) ==
    [k \in SubSystems \cup DOMAIN c |->
        IF k \in DOMAIN c THEN [t \in DOMAIN c[k] |-> c[k][t]]
        ELSE New(defaultKVS)[k]]

\* The clone with every target map of c taken over as it is.
CloneSharedAll(c) == DOMAIN c

\* The sub-systems whose target map the clone shares with c: none, every
\* cp[subSys] is a map made for the clone and filled with copies.
CloneShared(c) == {}

\* Whether the help list flags key as sensitive.
IsSensitive(hkvs, key) == \E h \in DOMAIN hkvs : hkvs[h].Sensitive /\ hkvs[h].Key = key

\* RedactKVS with the marker written over empty values too.
RedactAll(kvs, hkvs) ==
    [i \in DOMAIN kvs |->
        IF IsSensitive(hkvs, kvs[i].Key) THEN KV(kvs[i].Key, RedactedMarker) ELSE kvs[i]]

\* The writes of RedactSensitiveInfo on one KVS: every non-empty value of a
\* key flagged sensitive in the help list becomes the marker.
RedactKVS(kvs, hkvs) ==
    [i \in DOMAIN kvs |->
        IF IsSensitive(hkvs, kvs[i].Key) /\ Len(kvs[i].Value) > 0
        THEN KV(kvs[i].Key, RedactedMarker)
        ELSE kvs[i]]

\* The loops of RedactSensitiveInfo over the clone nc.
Redacted(nc) == [k \in DOMAIN nc |-> [t \in DOMAIN nc[k] |-> RedactKVS(nc[k][t], HelpOf(k))]]

\* Config.RedactSensitiveInfo on the store c: the store it returns and the
\* default KVS table afterwards (the in-place writes reach the table through
\* the entries of the clone that share its arrays).
RedactSensitiveInfo(c, defaultKVS) ==
    [config |-> DelKVS(Redacted(Clone(c, defaultKVS)), CredentialsSubSys).cfg,
     defaultKVS |-> [k \in DOMAIN defaultKVS |->
                        IF k \in SubSystems \ DOMAIN c
                        THEN RedactKVS(defaultKVS[k], HelpOf(k))
                        ELSE defaultKVS[k]]]

(***************************************************************************)
(* Reading directives line by line.                                        *)
(***************************************************************************)
\* The lines ReadConfig and DelFrom skip: empty ones and comments.
Skipped(text) == text = "" \/ HasPrefix(text, KvComment)

\* ReadConfig after SetKVS returned r for the first of lines: the error
\* ends the loop, with the lines before it applied.
RECURSIVE ReadLines(_, _, _, _)
\* ReadNext with the error of SetKVS dropped and the loop going on.
ReadNextOn(r, lines, dynOnly, defaultKVS) ==
    ReadLines(r.cfg, Tail(lines), dynOnly /\ r.dynamic, defaultKVS)

ReadNext(r, lines, dynOnly, defaultKVS) ==
    IF r.status # "ok" THEN SetResult(r.status, r.err, FALSE, r.cfg)
    ELSE ReadLines(r.cfg, Tail(lines), dynOnly /\ r.dynamic, defaultKVS)

\* The scanner loop of ReadConfig over the lines left.
ReadLines(c, lines, dynOnly, defaultKVS) ==
    IF Len(lines) = 0 THEN SetResult("ok", "", dynOnly, c)
    ELSE IF Skipped(Head(lines)) THEN ReadLines(c, Tail(lines), dynOnly, defaultKVS)
    ELSE ReadNext(SetKVS(c, Head(lines), defaultKVS), lines, dynOnly, defaultKVS)

\* Config.ReadConfig(r) on the store c, r holding the given lines: the
\* status, the error, dynOnly and the store afterwards.
ReadConfig(c, lines, defaultKVS) == ReadLines(c, lines, TRUE, defaultKVS)

RECURSIVE DelFrom(_, _)
DelNext(r, lines) ==
    IF r.status # "ok" THEN r ELSE DelFrom(r.cfg, Tail(lines))

\* Config.DelFrom(r) on the store c, r holding the given lines.
DelFrom(c, lines) ==
    IF Len(lines) = 0 THEN DelResult("ok", "", c)
    ELSE IF Skipped(Head(lines)) THEN DelFrom(c, Tail(lines))
    ELSE DelNext(DelKVS(c, Head(lines)), lines)

(***************************************************************************)
(* Merge.                                                                  *)
(***************************************************************************)
\* The sub-systems that were renamed, from their previous names.
renamedSubsys == [k \in {CrawlerSubSys} |-> ScannerSubSys]

\* The sequences that hold every element of S once: the orders in which a
\* range loop can visit a map with these keys.
RECURSIVE VisitOrders(_)
VisitOrders(S) ==
    IF S = {} THEN {<<>>}
    ELSE UNION {{<<x>> \o o : o \in VisitOrders(S \ {x})} : x \in S}

\* The back-fill loops of Merge: each entry of from whose key orig lacks is
\* set in ckvs.
RECURSIVE BackFill(_, _, _)
BackFill(ckvs, orig, from) ==
    IF Len(from) = 0 THEN ckvs
    ELSE BackFill(IF Lookup(orig, Head(from).Key).ok THEN ckvs
                  ELSE Set(ckvs, Head(from).Key, Head(from).Value),
                  orig, Tail(from))

\* The loop variables of Merge: the store cp it builds and subSys.
MergeState(cp, subSys) == [cp |-> cp, subSys |-> subSys]

\* cp[subSys][tgt] = ckvs, and subSys stays what it was set to.
MergeStore(cp, subSys, tgt, ckvs) ==
    MergeState([cp EXCEPT ![subSys] = MapSet(@, tgt, ckvs)], subSys)

\* The body of the inner loop of Merge once ckvs holds what the first
\* back-fill gave: a sub-system cp lacks is skipped, or stored under the
\* name it was renamed to, which subSys holds from then on.
MergeBackFilled(st, tgt, orig, ckvs) ==
    IF st.subSys \in DOMAIN st.cp THEN MergeStore(st.cp, st.subSys, tgt, ckvs)
    ELSE IF st.subSys \notin DOMAIN renamedSubsys THEN st
    ELSE MergeStore(st.cp, renamedSubsys[st.subSys], tgt,
             BackFill(ckvs, orig, KVSOf(TargetsOf(st.cp, renamedSubsys[st.subSys]), Default)))

MergeOrig(st, tgt, orig) ==
    MergeBackFilled(st, tgt, orig,
        BackFill(orig, orig, KVSOf(TargetsOf(st.cp, st.subSys), Default)))

\* One pass of the inner loop of Merge, for the target tgt: ckvs is read
\* from c under the name subSys holds now.
MergeTarget(c, st, tgt) == MergeOrig(st, tgt, KVSOf(TargetsOf(c, st.subSys), tgt))

\* The inner loop of Merge over the targets in the given order.
RECURSIVE MergeTargets(_, _, _)
MergeTargets(c, st, tgts) ==
    IF Len(tgts) = 0 THEN st
    ELSE MergeTargets(c, MergeTarget(c, st, Head(tgts)), Tail(tgts))

\* The stores the outer loop of Merge can build from cp over the
\* sub-systems in the given order, each map of targets visited in any order.
RECURSIVE MergeSubSystems(_, _, _)
MergeSubSystems(c, cps, subSystems) ==
    IF Len(subSystems) = 0 THEN cps
    ELSE MergeSubSystems(c,
             {MergeTargets(c, MergeState(cp, Head(subSystems)), o).cp :
                 cp \in cps, o \in VisitOrders(DOMAIN c[Head(subSystems)])},
             Tail(subSystems))

\* Config.Merge on the store c: the stores it can return (one for each
\* order in which the maps can be visited).
Merge(c, defaultKVS) ==
    UNION {MergeSubSystems(c, {New(defaultKVS)}, o) : o \in VisitOrders(DOMAIN c)}

(***************************************************************************)
(* What the receiver holds after a call that back-fills.  GetKVS and Merge *)
(* copy the slice header stored in c (kvs, ckvs) and call Set on the copy: *)
(* the array is shared with c, the length is the copy's own.               *)
(***************************************************************************)
\* StoredView with the header of c taken to grow with the copy.
StoredFilled(kvs, filled) == filled

\* What the header stored in c shows once the copy of it holds filled: the
\* entries of the shared array up to the length stored in c, so a write
\* over an entry is seen and an appended entry is not.
StoredView(kvs, filled) == SubSeq(filled, 1, Len(kvs))

\* The sub-system keys the loop of GetKVS over kvsOrder passes.
KvsOrderKeys ==
    {HelpOf("")[i].Key : i \in DOMAIN HelpOf("")}
    \cup {HelpDeprecatedSubSysMap[k].Key : k \in DOMAIN HelpDeprecatedSubSysMap}

\* The entries of c GetKVS back-fills a copy of, once its only token is
\* split at the separator: the target named, or every target of every
\* sub-system with the prefix.
GetVisitedOf(c, subSystemValue) ==
    IF ~Found(subSystemValue) THEN {}
    ELSE IF Len(subSystemValue) = 1
    THEN {p \in UNION {{<<k, t>> : t \in DOMAIN c[k]} : k \in KvsOrderKeys \cap DOMAIN c} :
             HasPrefix(p[1], subSystemValue[1])}
    ELSE IF HasTarget(c, subSystemValue[1], subSystemValue[2]) /\ Len(subSystemValue[2]) > 0
    THEN {<<subSystemValue[1], subSystemValue[2]>>}
    ELSE {}

GetVisited(c, s, inputs) ==
    IF Len(s) = 0 \/ Len(inputs) # 1 THEN {}
    ELSE GetVisitedOf(c, SplitN2(inputs[1], SubSystemSeparator))

\* The receiver of GetKVS after the call, visited being the entries it
\* back-filled a copy of.
GetKVSReceiver(c, visited, defaultKVS) ==
    [k \in DOMAIN c |->
        [t \in DOMAIN c[k] |->
            IF <<k, t>> \in visited
            THEN StoredView(c[k][t], FillDefaults(c[k][t], KVSOf(defaultKVS, k)))
            ELSE c[k][t]]]

\* The name Merge stores a sub-system of the old store under.
MergedName(subSys) ==
    IF subSys \in DOMAIN renamedSubsys THEN renamedSubsys[subSys] ELSE subSys

\* The receiver of Merge after the call that returned cp: every ckvs is a
\* copy of the header of c[subSys][tgt], back-filled from the default
\* target cp holds for the sub-system.
MergeReceiver(c, cp) ==
    [k \in DOMAIN c |->
        [t \in DOMAIN c[k] |->
            StoredView(c[k][t],
                BackFill(c[k][t], c[k][t], KVSOf(TargetsOf(cp, MergedName(k)), Default)))]]

(***************************************************************************)
(* The precedence resolver.                                                *)
(***************************************************************************)
\* env.Get(name, default) on the environment e.
EnvGet(e, name, default) == IF name \in DOMAIN e THEN e[name] ELSE default

\* getEnvVarName without the upper-casing of the sub-system and parameter.
EnvVarNameAsIs(subSys, target, param) ==
    IF target = Default
    THEN EnvPrefix \o subSys \o "_" \o param
    ELSE EnvPrefix \o subSys \o "_" \o param \o "_" \o target

getEnvVarName(subSys, target, param) ==
    IF target = Default
    THEN EnvPrefix \o ToUpper(subSys) \o "_" \o ToUpper(param)
    ELSE EnvPrefix \o ToUpper(subSys) \o "_" \o ToUpper(param) \o "_" \o target

Resolved(value, cs) == [value |-> value, cs |-> cs]

\* The look-up of ResolveConfigParam in the store, the default last.
ResolveStored(c, subSys, target, cfgParam, defValue) ==
    IF HasTarget(c, subSys, target) /\ Lookup(c[subSys][target], cfgParam).ok
    THEN Resolved(Lookup(c[subSys][target], cfgParam).v, ValueSourceCfg)
    ELSE Resolved(defValue, ValueSourceDef)

\* ResolveConfigParam from the value of the environment variable on.
ResolveFrom(c, subSys, target, cfgParam, defValue, value) ==
    IF value # "" THEN Resolved(value, ValueSourceEnv)
    ELSE ResolveStored(c, subSys, target, cfgParam, defValue)

ResolveTarget(c, subSys, target, cfgParam, defValue, e) ==
    ResolveFrom(c, subSys, target, cfgParam, defValue,
                EnvGet(e, getEnvVarName(subSys, target, cfgParam), ""))

\* Config.ResolveConfigParam(subSys, target, cfgParam) on the store c under
\* the environment e: the value and its source.
ResolveConfigParam(c, subSys, target, cfgParam, defaultKVS, e) ==
    IF subSys \notin resolvableSubsystems THEN Resolved("", ValueSourceAbsent)
    ELSE IF subSys \notin DOMAIN defaultKVS THEN Resolved("", ValueSourceAbsent)
    ELSE IF ~Lookup(defaultKVS[subSys], cfgParam).ok THEN Resolved("", ValueSourceAbsent)
    ELSE ResolveTarget(c, subSys, IF target = "" THEN Default ELSE target, cfgParam,
                       Lookup(defaultKVS[subSys], cfgParam).v, e)

(***************************************************************************)
(* The targets of a sub-system.                                            *)
(***************************************************************************)
\* env.List(prefix) on the environment e: the names that start with prefix.
EnvList(e, prefix) == {k \in DOMAIN e : HasPrefix(k, prefix)}

\* PrefixTargetNames with the empty rest kept.
PrefixRests(e, envVarPrefix) ==
    {TrimPrefix(k, envVarPrefix) : k \in EnvList(e, envVarPrefix)}

\* The inner loop of GetAvailableTargets: the non-empty rests of the names
\* that start with envVarPrefix.
PrefixTargetNames(e, envVarPrefix) ==
    {TrimPrefix(k, envVarPrefix) : k \in EnvList(e, envVarPrefix)} \ {""}

\* The loop of GetAvailableTargets over the parameters of defKVS: the
\* targets configured by environment variables.
EnvTargets(subSys, defKVS, e) ==
    UNION {PrefixTargetNames(e, getEnvVarName(subSys, Default, defKVS[i].Key) \o Default) :
              i \in DOMAIN defKVS}

TargetsResult(status, err, names) == [status |-> status, err |-> err, names |-> names]

\* Config.GetAvailableTargets(subSys) on the store c under the environment
\* e: the status, the error and the set of the target names returned.
GetAvailableTargets(c, subSys, defaultKVS, e) ==
    IF subSys \in SubSystemsSingleTargets THEN TargetsResult("ok", "", {Default})
    ELSE IF subSys \notin DOMAIN defaultKVS
    THEN TargetsResult("error", "Subsystem " \o subSys \o " does not exist", {})
    ELSE TargetsResult("ok", "",
             DOMAIN TargetsOf(c, subSys) \cup EnvTargets(subSys, defaultKVS[subSys], e))

(***************************************************************************)
(* The validation of keys.                                                 *)
(***************************************************************************)
\* The error of CheckValidKeys for the entries nkv it found invalid.
InvalidKeys(subSys, nkv) ==
    IF Len(nkv) > 0
    THEN [Result("error", "found invalid keys") EXCEPT !.targets = <<Target(subSys, nkv)>>]
    ELSE Result("ok", "")

\* CheckValidKeys(subSys, kv, validKVS): the entries of kv whose key is not
\* the comment key and is not a key of validKVS; an error when there is one.
CheckValidKeys(subSys, kv, validKVS) ==
    InvalidKeys(subSys,
        SelectSeq(kv, LAMBDA e : e.Key # Comment /\ ~Lookup(validKVS, e.Key).ok))

\* validKeys of Config.CheckValidKeys: the keys of defKVS, then comment.
ValidKeys(defKVS) == Append([i \in DOMAIN defKVS |-> defKVS[i].Key], Comment)

\* EnvCandidates with the names of the default target left in.
EnvCandidatesAll(subSys, validKeys, e) == EnvList(e, EnvPrefix \o ToUpper(subSys))

\* candidates once the names of the default target are removed.
EnvCandidates(subSys, validKeys, e) ==
    EnvList(e, EnvPrefix \o ToUpper(subSys))
        \ {getEnvVarName(subSys, Default, validKeys[i]) : i \in DOMAIN validKeys}

\* candidates once the names with a non-empty target are removed as well,
\* for a sub-system that can have targets.
UnknownEnvVars(subSys, validKeys, candidates) ==
    IF subSys \in SubSystemsSingleTargets THEN candidates
    ELSE {envVar \in candidates :
             ~\E i \in DOMAIN validKeys :
                 \E pEnvName \in {getEnvVarName(subSys, Default, validKeys[i]) \o Default} :
                     Len(envVar) > Len(pEnvName) /\ HasPrefix(envVar, pEnvName)}

\* InvalidKV cut after its first entry.
InvalidKVFirst(kvs, validKeysSet) ==
    IF \A i \in DOMAIN kvs : kvs[i].Key \in validKeysSet THEN <<>>
    ELSE <<kvs[CHOOSE i \in DOMAIN kvs :
                   /\ kvs[i].Key \notin validKeysSet
                   /\ \A j \in 1..(i - 1) : kvs[j].Key \in validKeysSet]>>

\* invalidKV for one target.
InvalidKV(kvs, validKeysSet) == SelectSeq(kvs, LAMBDA e : e.Key \notin validKeysSet)

\* The loop over the targets of the sub-system: the error of the first
\* target visited that holds an invalid key, which can be any of them.
CheckStoredKeys(subSys, kvsMap, validKeysSet) ==
    IF \A tgt \in DOMAIN kvsMap : Len(InvalidKV(kvsMap[tgt], validKeysSet)) = 0
    THEN {Result("ok", "")}
    ELSE {[Result("error", "found invalid keys")
              EXCEPT !.targets = <<Target(subSys \o SubSystemSeparator \o tgt,
                                          InvalidKV(kvsMap[tgt], validKeysSet))>>] :
             tgt \in {t \in DOMAIN kvsMap : Len(InvalidKV(kvsMap[t], validKeysSet)) > 0}}

\* CheckKeys with the deprecated keys left in the set of the valid ones.
CheckKeysDeprecated(c, subSys, deprecatedKeys, validKeys, unknown) ==
    IF unknown # {}
    THEN {[Result("error", "The following environment variables are unknown")
              EXCEPT !.names = unknown]}
    ELSE CheckStoredKeys(subSys, TargetsOf(c, subSys),
             {validKeys[i] : i \in DOMAIN validKeys})

\* Config.CheckValidKeys once validKeys is built.
CheckKeys(c, subSys, deprecatedKeys, validKeys, unknown) ==
    IF unknown # {}
    THEN {[Result("error", "The following environment variables are unknown")
              EXCEPT !.names = unknown]}
    ELSE CheckStoredKeys(subSys, TargetsOf(c, subSys),
             {validKeys[i] : i \in DOMAIN validKeys}
                 \ {deprecatedKeys[i] : i \in DOMAIN deprecatedKeys})

\* Config.CheckValidKeys from the test of the environment on.
CheckEnv(c, subSys, deprecatedKeys, validKeys, e) ==
    CheckKeys(c, subSys, deprecatedKeys, validKeys,
        UnknownEnvVars(subSys, validKeys, EnvCandidates(subSys, validKeys, e)))

\* Config.CheckValidKeys(subSys, deprecatedKeys) on the store c under the
\* environment e: the results it can return.  names are the variables the
\* error lists, targets the target and the entries it lists.
ConfigCheckValidKeys(c, subSys, deprecatedKeys, defaultKVS, e) ==
    IF subSys \notin DOMAIN defaultKVS
    THEN {Result("error", "Subsystem " \o subSys \o " does not exist")}
    ELSE CheckEnv(c, subSys, deprecatedKeys, ValidKeys(defaultKVS[subSys]), e)

(***************************************************************************)
(* timedValue (cmd/utils.go): a value cached for a time, fetched by the    *)
(* Update function the owner sets.  Time is counted in seconds.            *)
(***************************************************************************)
\* time.Second, and the last reading of the clock.
Second == 1

MaxNow == 3

\* The TTLs a timedValue is set up with: none, two seconds.
TTLs == {0, 2}

\* The zero time.Time lastUpdate holds before the first update: further
\* back than any TTL.
ZeroTime == 0 - (MaxNow + 3)

\* The goroutines that call Get.
Callers == {"g1", "g2"}

NoCaller == "none"

\* nil as a value and as an error.
NoValue == "nil"

NoError == "nil"

\* What Update can return: any value, nil too, with or without an error.
UpdateResults == [v : {NoValue, "v1", "v2"}, err : {NoError, "failed"}]

\* What Get returned to a goroutine (before its first return: nothing).
Returned(v, err) == [v |-> v, err |-> err]

NoReturn == Returned(NoValue, NoError)

\* A goroutine at a place of Get with its locals, and outside Get.
At(pc, v, err, got) == [pc |-> pc, v |-> v, err |-> err, got |-> got]

Idle(got) == At("idle", NoValue, NoError, got)

\* The ttl of get with the TTL taken as it is set.
TtlAsSet(TTL) == TTL

\* The ttl of get: one second when TTL is not set.
Ttl(TTL) == IF TTL <= 0 THEN Second ELSE TTL

\* What get returns at the time given: the value while it is younger than
\* the ttl, nil afterwards.
Cached(t, time) == IF time - t.lastUpdate < Ttl(t.TTL) THEN t.value ELSE NoValue

\* update: the value and the time of the update.
Updated(t, v, time) == [t EXCEPT !.value = v, !.lastUpdate = time]

\* Get calls get, which takes the lock for reading (no writer holds it).
TimedRLock(g) ==
    /\ callers[g].pc = "idle"
    /\ mu.writer = NoCaller
    /\ mu' = [mu EXCEPT !.readers = @ \cup {g}]
    /\ callers' = [callers EXCEPT ![g].pc = "rlocked"]
    /\ UNCHANGED <<tv, now>>
    /\ UNCHANGED svars

\* get reads the value, tests its age and releases the lock.
TimedRead(g) ==
    /\ callers[g].pc = "rlocked"
    /\ callers' = [callers EXCEPT ![g].pc = "got", ![g].v = Cached(tv, now)]
    /\ mu' = [mu EXCEPT !.readers = @ \ {g}]
    /\ UNCHANGED <<tv, now>>
    /\ UNCHANGED svars

\* if v != nil { return v, nil }
TimedReturnCached(g) ==
    /\ callers[g].pc = "got"
    /\ callers[g].v # NoValue
    /\ callers' = [callers EXCEPT ![g] = Idle(Returned(callers[g].v, NoError))]
    /\ UNCHANGED <<tv, mu, now>>
    /\ UNCHANGED svars

\* Get calls t.Update(), holding no lock.
TimedCallUpdate(g) ==
    /\ callers[g].pc = "got"
    /\ callers[g].v = NoValue
    /\ callers' = [callers EXCEPT ![g].pc = "update"]
    /\ UNCHANGED <<tv, mu, now>>
    /\ UNCHANGED svars

\* v, err := t.Update(): Update returns.
TimedUpdateReturns(g, R) ==
    \E r \in R :
        /\ callers[g].pc = "update"
        /\ callers' = [callers EXCEPT ![g].pc = "updated", ![g].v = r.v, ![g].err = r.err]
        /\ UNCHANGED <<tv, mu, now>>
        /\ UNCHANGED svars

\* if err != nil { return v, err }
TimedForward(g) ==
    /\ callers[g].pc = "updated"
    /\ callers[g].err # NoError
    /\ callers' = [callers EXCEPT ![g] = Idle(Returned(callers[g].v, callers[g].err))]
    /\ UNCHANGED <<tv, mu, now>>
    /\ UNCHANGED svars

\* Get calls update, which takes the lock for writing (nobody holds it).
TimedLock(g) ==
    /\ callers[g].pc = "updated"
    /\ callers[g].err = NoError
    /\ mu.writer = NoCaller
    /\ mu.readers = {}
    /\ mu' = [mu EXCEPT !.writer = g]
    /\ callers' = [callers EXCEPT ![g].pc = "locked"]
    /\ UNCHANGED <<tv, now>>
    /\ UNCHANGED svars

\* update sets the value and the time and releases the lock; Get returns
\* v, nil.
TimedStore(g) ==
    /\ callers[g].pc = "locked"
    /\ tv' = Updated(tv, callers[g].v, now)
    /\ mu' = [mu EXCEPT !.writer = NoCaller]
    /\ callers' = [callers EXCEPT ![g] = Idle(Returned(callers[g].v, NoError))]
    /\ UNCHANGED now
    /\ UNCHANGED svars

\* A second passes.
Tick ==
    /\ now < MaxNow
    /\ now' = now + 1
    /\ UNCHANGED <<tv, mu, callers>>
    /\ UNCHANGED svars

(***************************************************************************)
(* lcp and lcpSuffix (cmd/utils.go).  The positions i are those of the     *)
(* loops, from 0.                                                          *)
(***************************************************************************)
\* The positions at which the loops of lcp find different letters: from the
\* left for a prefix, from the right for a suffix.
Mismatches(xfix, str, maxl, pre) ==
    {i \in 0..(maxl - 1) :
        IF pre THEN Char(xfix, i + 1) # Char(str, i + 1)
        ELSE Char(xfix, Len(xfix) - i) # Char(str, Len(str) - i)}

\* xfix after the loop over the letters: cut at the first position found,
\* left as it is when none was.
Cut(xfix, mism, pre) ==
    IF mism = {} THEN xfix
    ELSE IF pre THEN SubSeq(xfix, 1, CHOOSE i \in mism : \A j \in mism : i <= j)
    ELSE SubSeq(xfix, Len(xfix) - (CHOOSE i \in mism : \A j \in mism : i <= j) + 1, Len(xfix))

\* One pass of the loop of lcp over strs[1:], for str.
Compared(xfix, str, pre) ==
    Cut(xfix, Mismatches(xfix, str, IF Len(str) < Len(xfix) THEN Len(str) ELSE Len(xfix), pre),
        pre)

\* The loop of lcp over the strings after the first.
RECURSIVE LcpRest(_, _, _)
LcpRest(xfix, rest, pre) ==
    IF Len(rest) = 0 THEN xfix
    ELSE IF Len(xfix) = 0 \/ Len(Head(rest)) = 0 THEN ""
    ELSE LcpRest(Compared(xfix, Head(rest), pre), Tail(rest), pre)

lcp(strs, pre) ==
    IF Len(strs) = 0 THEN ""
    ELSE IF Len(strs) = 1 THEN strs[1]
    ELSE LcpRest(strs[1], Tail(strs), pre)

lcpSuffix(strs) == lcp(strs, FALSE)

\* lcpSuffix(strs)
CallLcpSuffix(S) ==
    \E strs \in S :
        /\ op' = [name |-> "lcpSuffix", d |-> strs]
        /\ ret' = [Result("ok", "") EXCEPT !.value = lcpSuffix(strs)]
        /\ UNCHANGED <<DefaultKVS, cfg, environ, before, snap, shared, kvList>>
        /\ UNCHANGED tvars

(***************************************************************************)
(* The inputs of the calls.  A directive is given by its parts and handed  *)
(* to the store as the line of text an operator writes for them.           *)
(***************************************************************************)
\* The number of named targets the directives address.
MaxTargets == 1

\* The number of entries up to which Set is called on the KVS of its own.
MaxEntries == 4

TargetNames == {"t" \o ToString(i) : i \in 1..MaxTargets}

NoTarget == <<>>

Dir(subSys, tgt, kvs) == [subSys |-> subSys, tgt |-> tgt, kvs |-> kvs]

HasSpace(v) == \E i \in 1..Len(v) : IsSpace(Char(v, i))

Quoted(v) == IF HasSpace(v) THEN KvDoubleQuote \o v \o KvDoubleQuote ELSE v

\* subsystem[:target] key1=value1 key2="value with space"
Text(d) ==
    d.subSys
    \o (IF d.tgt = NoTarget THEN "" ELSE SubSystemSeparator \o d.tgt[1])
    \o (IF Len(d.kvs) = 0 THEN ""
        ELSE KvSpaceSeparator
             \o Join([i \in DOMAIN d.kvs |-> d.kvs[i].Key \o KvSeparator \o Quoted(d.kvs[i].Value)],
                     KvSpaceSeparator))

SiteDirectives ==
    {Dir(SiteSubSys, NoTarget, <<KV("name", "rack0"), KV("region", "us-east-1")>>),
     Dir(SiteSubSys, NoTarget, <<KV("name", "rack0"), KV("bogus", "1")>>)}

ScannerDirectives ==
    {Dir(ScannerSubSys, NoTarget, <<KV("delay", "20"), KV(Comment, "fast scan")>>)}

OpenIDDirectives(tgts) ==
    {Dir(IdentityOpenIDSubSys, t, kvs) :
        t \in tgts,
        kvs \in {<<KV("config_url", "http://idp"), KV("claim_name", "groups")>>,
                 <<KV("claim_name", "groups")>>}}

WebhookDirectives ==
    {Dir(NotifyWebhookSubSys, <<t>>, kvs) :
        t \in TargetNames,
        kvs \in {<<KV("endpoint", "http://h"), KV("auth_token", "secret123")>>,
                 <<KV(Enable, EnableOff)>>,
                 <<KV("auth_token", "secret123")>>}}

\* Lines SetKVS does not accept: the empty line, a sub-system that is not
\* registered, a target on a single-target sub-system, no registered key,
\* an empty value for a required key, and a line without a key/value tail.
MalformedDirectives ==
    {Dir("", NoTarget, <<>>),
     Dir(CrawlerSubSys, NoTarget, <<KV("delay", "5")>>),
     Dir(SiteSubSys, <<"t1">>, <<KV("name", "rack0")>>),
     Dir(SiteSubSys, NoTarget, <<KV("bogus", "1")>>),
     Dir(CredentialsSubSys, NoTarget, <<KV("access_key", "")>>),
     Dir(SiteSubSys, NoTarget, <<>>)}

Directives ==
    SiteDirectives \cup ScannerDirectives \cup WebhookDirectives \cup MalformedDirectives

DelInputs ==
    {Dir(NotifyWebhookSubSys, <<t>>, <<>>) : t \in TargetNames}
    \cup {Dir(CredentialsSubSys, NoTarget, <<>>), Dir(CrawlerSubSys, NoTarget, <<>>),
          Dir("", NoTarget, <<>>)}

GetInputs ==
    {Dir(NotifyWebhookSubSys, <<t>>, <<>>) : t \in TargetNames}
    \cup {Dir(k, NoTarget, <<>>) : k \in {SiteSubSys, NotifyWebhookSubSys, "s", "x", ""}}

(***************************************************************************)
(* The calls on the store.                                                 *)
(***************************************************************************)
CallSetKVS(D) ==
    \E d \in D :
        \E r \in {SetKVS(cfg, Text(d), DefaultKVS)} :
            /\ cfg' = r.cfg
            /\ UNCHANGED tvars
            /\ op' = [name |-> "SetKVS", d |-> d]
            /\ before' = cfg
            /\ ret' = [Result(r.status, r.err) EXCEPT !.dynamic = r.dynamic]
            /\ UNCHANGED <<DefaultKVS, environ>>
            /\ snap' = Seen(snap, shared, r.cfg)
            /\ UNCHANGED <<shared, kvList>>

CallDelKVS(D) ==
    \E d \in D :
        \E r \in {DelKVS(cfg, Text(d))} :
            /\ cfg' = r.cfg
            /\ UNCHANGED tvars
            /\ op' = [name |-> "DelKVS", d |-> d]
            /\ before' = cfg
            /\ ret' = Result(r.status, r.err)
            /\ UNCHANGED <<DefaultKVS, environ>>
            /\ snap' = Seen(snap, shared, r.cfg)
            /\ UNCHANGED <<shared, kvList>>

CallGetKVS(D) ==
    \E d \in D :
        \E r \in GetKVS(cfg, Text(d), DefaultKVS) :
            /\ UNCHANGED tvars
            /\ op' = [name |-> "GetKVS", d |-> d]
            /\ before' = cfg
            /\ ret' = [Result(r.status, r.err) EXCEPT !.targets = r.targets]
            /\ cfg' = GetKVSReceiver(cfg, GetVisited(cfg, Text(d), Fields(Text(d))), DefaultKVS)
            /\ UNCHANGED <<DefaultKVS, environ>>
            /\ UNCHANGED <<snap, shared, kvList>>

CallRedactSensitiveInfo ==
    \E r \in {RedactSensitiveInfo(cfg, DefaultKVS)} :
        /\ DefaultKVS' = r.defaultKVS
        /\ UNCHANGED tvars
        /\ op' = [name |-> "RedactSensitiveInfo", d |-> Dir("", NoTarget, <<>>)]
        /\ before' = cfg
        /\ ret' = [Result("ok", "") EXCEPT !.config = r.config]
        /\ UNCHANGED <<cfg, environ>>
        /\ UNCHANGED <<snap, shared, kvList>>

CallResolveConfigParam(Q) ==
    \E q \in Q :
        \E r \in {ResolveConfigParam(cfg, q.subSys, q.target, q.param, DefaultKVS, environ)} :
            /\ UNCHANGED tvars
            /\ op' = [name |-> "ResolveConfigParam", d |-> q]
            /\ before' = cfg
            /\ ret' = [Result("ok", "") EXCEPT !.value = r.value, !.cs = r.cs]
            /\ UNCHANGED <<DefaultKVS, cfg, environ>>
            /\ UNCHANGED <<snap, shared, kvList>>

CallReadConfig(L) ==
    \E lines \in L :
        \E r \in {ReadConfig(cfg, lines, DefaultKVS)} :
            /\ cfg' = r.cfg
            /\ UNCHANGED tvars
            /\ op' = [name |-> "ReadConfig", d |-> lines]
            /\ before' = cfg
            /\ ret' = [Result(r.status, r.err) EXCEPT !.dynamic = r.dynamic]
            /\ UNCHANGED <<DefaultKVS, environ>>
            /\ snap' = Seen(snap, shared, r.cfg)
            /\ UNCHANGED <<shared, kvList>>

CallDelFrom(L) ==
    \E lines \in L :
        \E r \in {DelFrom(cfg, lines)} :
            /\ cfg' = r.cfg
            /\ UNCHANGED tvars
            /\ op' = [name |-> "DelFrom", d |-> lines]
            /\ before' = cfg
            /\ ret' = Result(r.status, r.err)
            /\ UNCHANGED <<DefaultKVS, environ>>
            /\ snap' = Seen(snap, shared, r.cfg)
            /\ UNCHANGED <<shared, kvList>>

\* c = c.Clone(): the caller goes on with the store Clone returned.
CallClone ==
    \E r \in {Clone(cfg, DefaultKVS)} :
        /\ cfg' = r
        /\ UNCHANGED tvars
        /\ op' = [name |-> "Clone", d |-> Dir("", NoTarget, <<>>)]
        /\ before' = cfg
        /\ ret' = [Result("ok", "") EXCEPT !.config = r]
        /\ UNCHANGED <<DefaultKVS, environ>>
        /\ shared' = {}
        /\ UNCHANGED <<snap, kvList>>

\* c = c.Merge(): the caller goes on with the store Merge returned.
CallMerge ==
    \E r \in Merge(cfg, DefaultKVS) :
        /\ cfg' = r
        /\ UNCHANGED tvars
        /\ op' = [name |-> "Merge", d |-> Dir("", NoTarget, <<>>)]
        /\ before' = cfg
        /\ ret' = [Result("ok", "") EXCEPT !.config = r]
        /\ UNCHANGED <<DefaultKVS, environ>>
        /\ shared' = {}
        /\ UNCHANGED <<snap, kvList>>

\* c = c.RedactSensitiveInfo(): the caller goes on with the redacted store.
CallRedactInto ==
    \E r \in {RedactSensitiveInfo(cfg, DefaultKVS)} :
        /\ cfg' = r.config
        /\ DefaultKVS' = r.defaultKVS
        /\ UNCHANGED tvars
        /\ op' = [name |-> "RedactSensitiveInfo", d |-> Dir("", NoTarget, <<>>)]
        /\ before' = cfg
        /\ ret' = [Result("ok", "") EXCEPT !.config = r.config]
        /\ UNCHANGED environ
        /\ shared' = {}
        /\ UNCHANGED <<snap, kvList>>

CallGetAvailableTargets(Q) ==
    \E subSys \in Q :
        \E r \in {GetAvailableTargets(cfg, subSys, DefaultKVS, environ)} :
            /\ UNCHANGED tvars
            /\ op' = [name |-> "GetAvailableTargets", d |-> Dir(subSys, NoTarget, <<>>)]
            /\ before' = cfg
            /\ ret' = [Result(r.status, r.err) EXCEPT !.names = r.names]
            /\ UNCHANGED <<DefaultKVS, cfg, environ>>
            /\ UNCHANGED <<snap, shared, kvList>>

CallCheckValidKeys(Q) ==
    \E q \in Q :
        \E r \in ConfigCheckValidKeys(cfg, q.subSys, q.deprecatedKeys, DefaultKVS, environ) :
            /\ UNCHANGED tvars
            /\ op' = [name |-> "Config.CheckValidKeys", d |-> q]
            /\ before' = cfg
            /\ ret' = r
            /\ UNCHANGED <<DefaultKVS, cfg, environ>>
            /\ UNCHANGED <<snap, shared, kvList>>

\* CheckValidKeys on the entries stored for a target, against the default
\* KVS of its sub-system.
CallCheckValidKVS ==
    \E subSys \in DOMAIN cfg \cap DOMAIN DefaultKVS :
        \E tgt \in DOMAIN cfg[subSys] :
            /\ UNCHANGED tvars
            /\ op' = [name |-> "CheckValidKeys", d |-> Dir(subSys, <<tgt>>, <<>>)]
            /\ before' = cfg
            /\ ret' = CheckValidKeys(subSys, cfg[subSys][tgt], DefaultKVS[subSys])
            /\ UNCHANGED <<DefaultKVS, cfg, environ>>
            /\ UNCHANGED <<snap, shared, kvList>>

\* cp = c.Clone(): a reader is handed a snapshot and c stays in use.
CallSnapshot ==
    \E r \in {Clone(cfg, DefaultKVS)} :
        /\ snap' = r
        /\ shared' = CloneShared(cfg)
        /\ UNCHANGED tvars
        /\ op' = [name |-> "cp = c.Clone", d |-> Dir("", NoTarget, <<>>)]
        /\ before' = cfg
        /\ ret' = [Result("ok", "") EXCEPT !.config = r]
        /\ UNCHANGED <<DefaultKVS, cfg, environ, kvList>>

\* c = New(): the caller goes on with a fresh store.
CallNew ==
    \E r \in {New(DefaultKVS)} :
        /\ cfg' = r
        /\ UNCHANGED tvars
        /\ op' = [name |-> "New", d |-> Dir("", NoTarget, <<>>)]
        /\ before' = cfg
        /\ ret' = [Result("ok", "") EXCEPT !.config = r]
        /\ shared' = {}
        /\ UNCHANGED <<DefaultKVS, environ, snap, kvList>>

\* cp = c.Merge(): the merged store is handed on and c stays in use.
CallMergeSnapshot ==
    \E r \in Merge(cfg, DefaultKVS) :
        /\ snap' = r
        /\ shared' = {}
        /\ cfg' = MergeReceiver(cfg, r)
        /\ UNCHANGED tvars
        /\ op' = [name |-> "cp = c.Merge", d |-> Dir("", NoTarget, <<>>)]
        /\ before' = cfg
        /\ ret' = [Result("ok", "") EXCEPT !.config = r]
        /\ UNCHANGED <<DefaultKVS, environ, kvList>>

\* cp.SetKVS on the snapshot.
SnapshotSetKVS(D) ==
    \E d \in D :
        \E r \in {SetKVS(snap, Text(d), DefaultKVS)} :
            /\ DOMAIN snap # {}
            /\ snap' = r.cfg
            /\ cfg' = Seen(cfg, shared, r.cfg)
            /\ UNCHANGED tvars
            /\ op' = [name |-> "cp.SetKVS", d |-> d]
            /\ before' = snap
            /\ ret' = [Result(r.status, r.err) EXCEPT !.dynamic = r.dynamic]
            /\ UNCHANGED <<DefaultKVS, environ, shared, kvList>>

\* cp.DelKVS on the snapshot.
SnapshotDelKVS(D) ==
    \E d \in D :
        \E r \in {DelKVS(snap, Text(d))} :
            /\ DOMAIN snap # {}
            /\ snap' = r.cfg
            /\ cfg' = Seen(cfg, shared, r.cfg)
            /\ UNCHANGED tvars
            /\ op' = [name |-> "cp.DelKVS", d |-> d]
            /\ before' = snap
            /\ ret' = Result(r.status, r.err)
            /\ UNCHANGED <<DefaultKVS, environ, shared, kvList>>

\* kvs.Set(key, value) on the KVS of its own.
CallSet(K, V) ==
    \E key \in K, value \in V :
        /\ Len(kvList) < MaxEntries
        /\ kvList' = Set(kvList, key, value)
        /\ UNCHANGED tvars
        /\ op' = [name |-> "KVS.Set", d |-> KV(key, value)]
        /\ before' = kvList
        /\ ret' = Result("ok", "")
        /\ UNCHANGED <<DefaultKVS, cfg, environ, snap, shared>>

\* kvs.Delete(key)
CallDelete(K) ==
    \E key \in K :
        /\ kvList' = Delete(kvList, key)
        /\ UNCHANGED tvars
        /\ op' = [name |-> "KVS.Delete", d |-> KV(key, "")]
        /\ before' = kvList
        /\ ret' = Result("ok", "")
        /\ UNCHANGED <<DefaultKVS, cfg, environ, snap, shared>>

\* kvs.Get(key)
CallGet(K) ==
    \E key \in K :
        /\ UNCHANGED tvars
        /\ op' = [name |-> "KVS.Get", d |-> KV(key, "")]
        /\ before' = kvList
        /\ ret' = [Result("ok", "") EXCEPT !.value = Get(kvList, key)]
        /\ UNCHANGED <<DefaultKVS, cfg, environ, snap, shared, kvList>>

EmptyEnv == [n \in {} |-> ""]

\* The process once RegisterDefaultKVS was given the table and the store c
\* exists.
InitStore(table, c, e) ==
    /\ DefaultKVS = table
    /\ cfg = c
    /\ environ = e
    /\ op = [name |-> "New", d |-> Dir("", NoTarget, <<>>)]
    /\ before = c
    /\ ret = Result("ok", "")
    /\ snap = EmptyConfig
    /\ shared = {}
    /\ kvList = <<>>

\* A timedValue before the first Get: no value, the zero time, no goroutine
\* in Get.
TimedInit(ttl) ==
    /\ tv = [TTL |-> ttl, value |-> NoValue, lastUpdate |-> ZeroTime]
    /\ mu = [readers |-> {}, writer |-> NoCaller]
    /\ callers = [g \in Callers |-> Idle(NoReturn)]
    /\ now = 0

InitTable(table, c, e) == InitStore(table, c, e) /\ TimedInit(0)

InitWith(c, e) == InitTable(RegisteredDefaultKVS, c, e)

\* The store after New, in a process started without MINIO_ variables.
Init == InitWith(New(RegisteredDefaultKVS), EmptyEnv)

Next ==
    \/ CallSetKVS(Directives)
    \/ CallDelKVS(DelInputs)
    \/ CallGetKVS(GetInputs)
    \/ CallRedactSensitiveInfo

Spec == Init /\ [][Next]_vars

(***************************************************************************)
(* The resolver under the environments a process can be started with.      *)
(***************************************************************************)
\* The MINIO_ variables of the process: none, claim_name of the default
\* target, claim_name set to the empty string, claim_name of a named target,
\* and variables of other parameters and sub-systems, with and without a
\* target.
Environments ==
    {EmptyEnv,
     [n \in {"MINIO_IDENTITY_OPENID_CLAIM_NAME"} |-> "envclaim"],
     [n \in {"MINIO_IDENTITY_OPENID_CLAIM_NAME"} |-> ""]}
    \cup {[n \in {"MINIO_IDENTITY_OPENID_CLAIM_NAME_" \o t} |-> "envclaim"] : t \in TargetNames}
    \cup {[n \in {"MINIO_IDENTITY_OPENID_CONFIG_URL_", "MINIO_IDENTITY_OPENID_CONFIG_URL_env",
                  "MINIO_IDENTITY_OPENID_BOGUS", "MINIO_SITE_NAME", "MINIO_SITE_NAME_env"}
               |-> "envvalue"]}

OpenIDTargets == {NoTarget} \cup {<<t>> : t \in TargetNames}

ResolveInputs ==
    [subSys : {IdentityOpenIDSubSys}, target : {"", Default} \cup TargetNames,
     param : {"claim_name", "config_url", "bogus"}]
    \cup [subSys : {SiteSubSys, CrawlerSubSys}, target : {Default}, param : {"name"}]

InitEnv == \E e \in Environments : InitWith(New(RegisteredDefaultKVS), e)

NextEnv ==
    \/ CallSetKVS(OpenIDDirectives(OpenIDTargets))
    \/ CallDelKVS({Dir(IdentityOpenIDSubSys, t, <<>>) : t \in OpenIDTargets})
    \/ CallResolveConfigParam(ResolveInputs)
    \/ CallGetAvailableTargets({IdentityOpenIDSubSys, SiteSubSys, ScannerSubSys, CrawlerSubSys})

SpecEnv == InitEnv /\ [][NextEnv]_vars

(***************************************************************************)
(* Stores read back from a persisted configuration: Config is a plain map, *)
(* and what was saved by an earlier version of the server need not have    *)
(* the shape New gives.                                                    *)
(***************************************************************************)
\* The store of this version, a store saved before crawler was renamed, and
\* one that holds a second target under credentials.
PersistedStores ==
    {New(RegisteredDefaultKVS),
     MapSet(New(RegisteredDefaultKVS), CrawlerSubSys,
            [t \in {Default} |-> <<KV("delay", "5")>>]),
     [New(RegisteredDefaultKVS) EXCEPT ![CredentialsSubSys] =
         MapSet(@, "old", <<KV("access_key", "admin2"), KV("secret_key", "secret456")>>)]}

InitLoaded == \E c \in PersistedStores : InitWith(c, EmptyEnv)

NextLoaded ==
    \/ CallSetKVS(SiteDirectives \cup {Dir(CrawlerSubSys, NoTarget, <<KV("delay", "5")>>)})
    \/ CallDelKVS({Dir(CrawlerSubSys, NoTarget, <<>>), Dir(CrawlerSubSys, <<"t1">>, <<>>),
                   Dir(CredentialsSubSys, NoTarget, <<>>),
                   Dir(CredentialsSubSys, <<"old">>, <<>>)})
    \/ CallGetKVS({Dir(SiteSubSys, NoTarget, <<>>), Dir(CredentialsSubSys, NoTarget, <<>>)})
    \/ CallRedactSensitiveInfo

SpecLoaded == InitLoaded /\ [][NextLoaded]_vars

(***************************************************************************)
(* The life of a store: every operation that changes a store or returns    *)
(* one the caller goes on with, from New.                                  *)
(***************************************************************************)
\* Directives on the default and named targets of a multi-target
\* sub-system (one with a comment, one with an empty target name), with a
\* target on a single-target sub-system, and without a tail.
StoreDirectives ==
    {Dir(NotifyWebhookSubSys, NoTarget, <<KV(Enable, EnableOff), KV(Comment, "hello")>>),
     Dir(NotifyWebhookSubSys, <<"">>, <<KV("endpoint", "http://h")>>),
     Dir(SiteSubSys, <<"t1">>, <<KV("name", "rack0")>>),
     Dir(SiteSubSys, <<"t1">>, <<>>),
     Dir(SiteSubSys, NoTarget, <<>>)}
    \cup {Dir(NotifyWebhookSubSys, <<t>>, <<KV("endpoint", "http://h")>>) : t \in TargetNames}

StoreDelInputs ==
    {Dir(NotifyWebhookSubSys, NoTarget, <<>>), Dir(CrawlerSubSys, NoTarget, <<>>)}
    \cup {Dir(NotifyWebhookSubSys, <<t>>, <<>>) : t \in TargetNames}

\* The contents ReadConfig is given: a comment and an empty line around a
\* directive, then a directive that is refused.
ReadInputs == {<<"# scanner", "scanner delay=20", "", "site:t1 name=rack0">>}

\* The contents DelFrom is given: a target twice.
DelFromInputs == {<<"# scanner", "scanner", "", "scanner">>}

NextStore ==
    \/ CallSetKVS(StoreDirectives)
    \/ CallDelKVS(StoreDelInputs)
    \/ CallReadConfig(ReadInputs)
    \/ CallDelFrom(DelFromInputs)
    \/ CallClone
    \/ CallMerge
    \/ CallRedactInto

SpecStore == Init /\ [][NextStore]_vars

(***************************************************************************)
(* Merge on stores saved by earlier versions of the server.                *)
(***************************************************************************)
\* Stores saved when the scanner was still the crawler (with one target,
\* with two, and next to a scanner entry), when a sub-system since removed
\* existed, and with a notify_webhook target that has no auth_token key.
OldStores ==
    {MapSet(MapDelete(New(RegisteredDefaultKVS), ScannerSubSys), CrawlerSubSys,
            [t \in {Default} |-> <<KV("delay", "5")>>]),
     MapSet(MapDelete(New(RegisteredDefaultKVS), ScannerSubSys), CrawlerSubSys,
            [t \in {Default, "t1"} |->
                IF t = Default THEN <<KV("delay", "5")>> ELSE <<KV("delay", "7")>>]),
     MapSet([New(RegisteredDefaultKVS) EXCEPT ![ScannerSubSys] =
                 [t \in {Default} |-> <<KV("delay", "20")>>]],
            CrawlerSubSys, [t \in {Default} |-> <<KV("delay", "5")>>]),
     MapSet(MapDelete(New(RegisteredDefaultKVS), SiteSubSys), "region",
            [t \in {Default} |-> <<KV("name", "us-east-1")>>]),
     [New(RegisteredDefaultKVS) EXCEPT ![NotifyWebhookSubSys] =
         [t \in {Default, "t1"} |->
             IF t = Default
             THEN <<KV(Enable, EnableOff), KV("endpoint", ""), KV("auth_token", "secret123")>>
             ELSE <<KV(Enable, EnableOn), KV("endpoint", "http://h")>>]]}

InitOld == \E c \in OldStores : InitWith(c, EmptyEnv)

NextOld ==
    \/ CallMerge
    \/ CallSetKVS(ScannerDirectives \cup WebhookDirectives)
    \/ CallDelKVS({Dir(CrawlerSubSys, NoTarget, <<>>), Dir("region", NoTarget, <<>>)})

SpecOld == InitOld /\ [][NextOld]_vars

(***************************************************************************)
(* The validation of keys, on stores from New and from a persisted         *)
(* configuration, under the environments a process can be started with.    *)
(***************************************************************************)
\* No variable; variables that are all accepted; variables of site that are
\* not (a target on a single-target sub-system, an unknown parameter, a
\* name that only starts like the sub-system's); variables of
\* notify_webhook that are not (an empty target, an unknown parameter with
\* and without a target, a parameter in lower case) next to one that is.
ValidEnvs ==
    {EmptyEnv,
     [n \in {"MINIO_SITE_NAME", "MINIO_SITE_COMMENT", "MINIO_NOTIFY_WEBHOOK_AUTH_TOKEN",
              "MINIO_NOTIFY_WEBHOOK_ENDPOINT_t1", "MINIO_NOTIFY_WEBHOOK_COMMENT_t2"}
         |-> "envvalue"],
     [n \in {"MINIO_SITE_NAME", "MINIO_SITE_NAME_t1", "MINIO_SITE_BOGUS", "MINIO_SITEX"}
         |-> "envvalue"],
     [n \in {"MINIO_NOTIFY_WEBHOOK_ENDPOINT_", "MINIO_NOTIFY_WEBHOOK_BOGUS",
              "MINIO_NOTIFY_WEBHOOK_BOGUS_t1", "MINIO_NOTIFY_WEBHOOK_endpoint",
              "MINIO_NOTIFY_WEBHOOK_ENDPOINT_t1"}
         |-> "envvalue"]}

\* The store of this version, and one saved by a version that knew more
\* keys of notify_webhook.
ValidStores ==
    {New(RegisteredDefaultKVS),
     [New(RegisteredDefaultKVS) EXCEPT ![NotifyWebhookSubSys] =
         [t \in {Default, "t1", "t2"} |->
             CASE t = Default -> <<KV(Enable, EnableOff), KV("endpoint", ""),
                                   KV("auth_token", ""), KV("queue_dir", "/q")>>
               [] t = "t1" -> <<KV(Enable, EnableOn), KV("bogus", "1"),
                                KV("endpoint", "http://h"), KV("stale", "2")>>
               [] t = "t2" -> <<KV(Enable, EnableOn), KV("endpoint", "http://g"),
                                KV(Comment, "second")>>]]}

ValidQueries ==
    [subSys : {SiteSubSys, NotifyWebhookSubSys, CrawlerSubSys},
     deprecatedKeys : {<<>>, <<"name">>, <<"auth_token">>}]

InitValid == \E c \in ValidStores, e \in ValidEnvs : InitWith(c, e)

NextValid ==
    \/ CallSetKVS({Dir(SiteSubSys, NoTarget, <<KV("name", "rack0"), KV(Comment, "c")>>)})
    \/ CallDelKVS({Dir(SiteSubSys, NoTarget, <<>>), Dir(NotifyWebhookSubSys, <<"t1">>, <<>>),
                   Dir(NotifyWebhookSubSys, NoTarget, <<>>)})
    \/ CallCheckValidKeys(ValidQueries)
    \/ CallCheckValidKVS

SpecValid == InitValid /\ [][NextValid]_vars

(***************************************************************************)
(* Configuration files read into a store from New.                         *)
(***************************************************************************)
\* The contents ReadConfig is given: nothing; comments and empty lines
\* only; one sub-system set twice, both times dynamic; a dynamic and a
\* static sub-system; a line SetKVS refuses between two it accepts; a
\* comment marker after a space; a line without a key/value tail last.
ReadFiles ==
    {<<>>,
     <<"# nothing", "">>,
     <<"# scanner", "scanner delay=20", "", "scanner delay=30">>,
     <<"scanner delay=20", "site name=rack0">>,
     <<"scanner delay=40", "bogus name=x", "site name=rack1">>,
     <<" # scanner", "scanner delay=50">>,
     <<"scanner delay=60", "site">>}

InitRead == InitWith(New(RegisteredDefaultKVS), EmptyEnv)

NextRead ==
    \/ CallReadConfig(ReadFiles)
    \/ CallDelFrom({<<"# reset", "scanner", "", "site">>, <<"site">>})
    \/ CallSetKVS({Dir(ScannerSubSys, NoTarget, <<KV("delay", "10")>>),
                   Dir(SiteSubSys, NoTarget, <<KV("region", "us-east-1")>>)})

SpecRead == InitRead /\ [][NextRead]_vars

(***************************************************************************)
(* A writer on the store and a reader with a snapshot of it.               *)
(***************************************************************************)
SnapshotDirectives ==
    {Dir(ScannerSubSys, NoTarget, <<KV("delay", "20")>>),
     Dir(NotifyWebhookSubSys, <<"t1">>, <<KV("endpoint", "http://h")>>)}

SnapshotDelInputs ==
    {Dir(NotifyWebhookSubSys, <<"t1">>, <<>>), Dir(ScannerSubSys, NoTarget, <<>>)}

NextSnapshot ==
    \/ CallSnapshot
    \/ CallSetKVS(SnapshotDirectives)
    \/ CallDelKVS(SnapshotDelInputs)
    \/ CallReadConfig({<<"scanner delay=30", "site name=rack0">>})
    \/ CallDelFrom({<<"site">>})
    \/ SnapshotSetKVS(SnapshotDirectives)
    \/ SnapshotDelKVS(SnapshotDelInputs)

SpecSnapshot == Init /\ [][NextSnapshot]_vars

(***************************************************************************)
(* A KVS built from the empty KVS by Set and Delete.                       *)
(***************************************************************************)
KVSKeys == {"name", "region", Comment}

KVSValues == {"", "rack0", "rack1"}

NextKVS ==
    \/ CallSet(KVSKeys, KVSValues)
    \/ CallDelete(KVSKeys)
    \/ CallGet(KVSKeys)

SpecKVS == Init /\ [][NextKVS]_vars

(***************************************************************************)
(* Stores from New under the tables RegisterDefaultKVS can be given.       *)
(***************************************************************************)
\* The registered table, and one whose KVS for the scanner has no entry.
FreshTables ==
    {RegisteredDefaultKVS, [RegisteredDefaultKVS EXCEPT ![ScannerSubSys] = <<>>]}

InitFresh == \E t \in FreshTables : InitTable(t, New(t), EmptyEnv)

NextFresh ==
    \/ CallGetKVS({Dir(k, NoTarget, <<>>) : k \in SubSystems})
    \/ CallSetKVS(SiteDirectives \cup ScannerDirectives)
    \/ CallDelKVS({Dir(SiteSubSys, NoTarget, <<>>), Dir(ScannerSubSys, NoTarget, <<>>)})

SpecFresh == InitFresh /\ [][NextFresh]_vars

(***************************************************************************)
(* The calls that read a store, on stores saved by earlier versions whose  *)
(* targets lack default keys.                                              *)
(***************************************************************************)
ReaderEnvs ==
    {EmptyEnv,
     [n \in {"MINIO_NOTIFY_WEBHOOK_ENDPOINT_t1", "MINIO_IDENTITY_OPENID_CLAIM_NAME"} |-> "envvalue"]}

ReaderGetInputs ==
    GetInputs \cup {Dir(k, NoTarget, <<>>) : k \in {ScannerSubSys, CrawlerSubSys}}

ReaderResolveInputs ==
    [subSys : {IdentityOpenIDSubSys}, target : {Default, "t1"}, param : {"claim_name", "config_url"}]

ReaderQueries ==
    [subSys : {NotifyWebhookSubSys, CrawlerSubSys}, deprecatedKeys : {<<>>}]

InitReaders == \E c \in OldStores, e \in ReaderEnvs : InitWith(c, e)

NextReaders ==
    \/ CallGetKVS(ReaderGetInputs)
    \/ CallGetAvailableTargets({NotifyWebhookSubSys})
    \/ CallResolveConfigParam(ReaderResolveInputs)
    \/ CallCheckValidKeys(ReaderQueries)
    \/ CallCheckValidKVS
    \/ CallSnapshot
    \/ CallMergeSnapshot

SpecReaders == InitReaders /\ [][NextReaders]_vars

(***************************************************************************)
(* The default KVS table under the calls on a store, for stores read back  *)
(* without an entry for a registered sub-system.                           *)
(***************************************************************************)
\* The store of this version, and stores saved without the credentials and
\* without the notify_webhook sub-system.
RegistryStores ==
    {New(RegisteredDefaultKVS),
     MapDelete(New(RegisteredDefaultKVS), CredentialsSubSys),
     MapDelete(New(RegisteredDefaultKVS), NotifyWebhookSubSys)}

InitRegistry == \E c \in RegistryStores : InitWith(c, EmptyEnv)

NextRegistry ==
    \/ CallNew
    \/ CallClone
    \/ CallSetKVS(SiteDirectives)
    \/ CallGetKVS({Dir(CredentialsSubSys, NoTarget, <<>>), Dir(SiteSubSys, NoTarget, <<>>)})
    \/ CallMerge
    \/ CallRedactSensitiveInfo

SpecRegistry == InitRegistry /\ [][NextRegistry]_vars

(***************************************************************************)
(* The environment of a multi-target sub-system that declares a parameter  *)
(* whose name is another parameter's name, `_` and more (as sasl and       *)
(* sasl_username of notify_kafka).                                         *)
(***************************************************************************)
\* The kvsMap registered, with such a pair of parameters for notify_webhook.
PrefixedTable ==
    [RegisteredDefaultKVS EXCEPT ![NotifyWebhookSubSys] =
        @ \o <<KV("sasl", ""), KV("sasl_username", "")>>]

\* The MINIO_ variables of the process: none, sasl_username of the default
\* target, of the target t1 and of an empty target, sasl of the target t1,
\* and endpoint of the default target.
PrefixedEnvs ==
    {EmptyEnv}
    \cup {[n \in {name} |-> "envvalue"] :
             name \in {"MINIO_NOTIFY_WEBHOOK_SASL_USERNAME", "MINIO_NOTIFY_WEBHOOK_SASL_USERNAME_t1",
                       "MINIO_NOTIFY_WEBHOOK_SASL_USERNAME_", "MINIO_NOTIFY_WEBHOOK_SASL_t1",
                       "MINIO_NOTIFY_WEBHOOK_ENDPOINT"}}

InitPrefixed == \E e \in PrefixedEnvs : InitTable(PrefixedTable, New(PrefixedTable), e)

NextPrefixed ==
    \/ CallGetAvailableTargets({NotifyWebhookSubSys})
    \/ CallCheckValidKeys([subSys : {NotifyWebhookSubSys}, deprecatedKeys : {<<>>}])
    \/ CallSetKVS(WebhookDirectives)
    \/ CallDelKVS({Dir(NotifyWebhookSubSys, <<t>>, <<>>) : t \in TargetNames})

SpecPrefixed == InitPrefixed /\ [][NextPrefixed]_vars

(***************************************************************************)
(* GetKVS, DelKVS and DelFrom on input that is white space only.           *)
(***************************************************************************)
\* The text of white space only the calls are given.
Blanks == {" ", "  ", "\t"}

BlankInputs == {Dir(b, NoTarget, <<>>) : b \in Blanks}

\* The contents DelFrom is given: a line of white space after a target.
BlankLines == {<<"scanner", b, "site">> : b \in Blanks} \cup {<<"# scanner", "", "site">>}

NextBlank ==
    \/ CallGetKVS(BlankInputs \cup {Dir(SiteSubSys, NoTarget, <<>>)})
    \/ CallDelKVS(BlankInputs \cup {Dir(NotifyWebhookSubSys, <<t>>, <<>>) : t \in TargetNames})
    \/ CallDelFrom(BlankLines)
    \/ CallSetKVS(WebhookDirectives \cup ScannerDirectives)

SpecBlank == Init /\ [][NextBlank]_vars

(***************************************************************************)
(* Two goroutines calling Get on one timedValue.                           *)
(***************************************************************************)
InitTimed ==
    \E ttl \in TTLs :
        InitStore(RegisteredDefaultKVS, New(RegisteredDefaultKVS), EmptyEnv) /\ TimedInit(ttl)

NextTimed ==
    \/ \E g \in Callers :
          \/ TimedRLock(g)
          \/ TimedRead(g)
          \/ TimedReturnCached(g)
          \/ TimedCallUpdate(g)
          \/ TimedUpdateReturns(g, UpdateResults)
          \/ TimedForward(g)
          \/ TimedLock(g)
          \/ TimedStore(g)
    \/ Tick

SpecTimed == InitTimed /\ [][NextTimed]_vars

(***************************************************************************)
(* lcpSuffix on lists of up to three strings.                              *)
(***************************************************************************)
LcpLetters == {"c", "d"}

\* The strings of up to two letters, and of up to three.
LcpShortWords == {""} \cup LcpLetters \cup {x \o y : x, y \in LcpLetters}

LcpWords == LcpShortWords \cup {x \o y \o z : x, y, z \in LcpLetters}

\* The lists lcpSuffix is given: none, one and two strings, and three short
\* ones.
LcpInputs ==
    {<<>>, <<"abcd", "cd">>, <<"cd", "abcd">>}
    \cup {<<x>> : x \in LcpWords}
    \cup {<<x, y>> : x, y \in LcpWords}
    \cup {<<x, y, z>> : x, y, z \in LcpShortWords}

NextLcp == CallLcpSuffix(LcpInputs)

SpecLcp == Init /\ [][NextLcp]_vars

(***************************************************************************)
(* Properties of the calls.  In each state op is the last call, before the *)
(* store it was made on, ret what it returned and cfg the store now.       *)
(***************************************************************************)

\* C1: ResolveConfigParam on identity_openid and claim_name (default
\* "policy") returns the value of the environment variable with source Env
\* when that variable is set and non-empty; else the stored value of the
\* addressed target with source Config when the store holds one; else the
\* default with source Default.
C1_ResolvePrecedence ==
    (op.name = "ResolveConfigParam" /\ op.d.subSys = IdentityOpenIDSubSys
        /\ op.d.param = "claim_name") =>
    \A t \in {IF op.d.target = "" THEN "_" ELSE op.d.target} :
    \A n \in {IF t = "_" THEN "MINIO_IDENTITY_OPENID_CLAIM_NAME"
              ELSE "MINIO_IDENTITY_OPENID_CLAIM_NAME_" \o t} :
        IF n \in DOMAIN environ /\ environ[n] # ""
        THEN ret.value = environ[n] /\ ret.cs = ValueSourceEnv
        ELSE IF /\ t \in DOMAIN cfg[IdentityOpenIDSubSys]
                /\ \E i \in DOMAIN cfg[IdentityOpenIDSubSys][t] :
                       cfg[IdentityOpenIDSubSys][t][i].Key = "claim_name"
        THEN /\ ret.cs = ValueSourceCfg
             /\ KV("claim_name", ret.value) \in
                    {cfg[IdentityOpenIDSubSys][t][i] : i \in DOMAIN cfg[IdentityOpenIDSubSys][t]}
        ELSE ret.value = "policy" /\ ret.cs = ValueSourceDef

\* The environment variable of a named target wins over the value stored
\* for that target.
C1_Witness ==
    /\ op.name = "ResolveConfigParam"
    /\ op.d = [subSys |-> IdentityOpenIDSubSys, target |-> "t1", param |-> "claim_name"]
    /\ "t1" \in DOMAIN cfg[IdentityOpenIDSubSys]
    /\ KV("claim_name", "groups") \in
           {cfg[IdentityOpenIDSubSys]["t1"][i] : i \in DOMAIN cfg[IdentityOpenIDSubSys]["t1"]}
    /\ ret.value = "envclaim"
    /\ ret.cs = ValueSourceEnv

\* C2: whenever SetKVS returns an error the store is exactly as it was
\* before the call.
C2_ErrorLeavesStore ==
    (op.name = "SetKVS" /\ ret.status = "error") => cfg = before

\* SetKVS refused a directive for a missing required key, after the merge.
C2_Witness ==
    /\ op.name = "SetKVS"
    /\ ret.status = "error"
    /\ ret.err = "'endpoint' is not optional for 'notify_webhook' sub-system, please check 'notify_webhook' documentation"
    /\ cfg = before

\* C3: a directive SetKVS accepted is accepted again on the store it left,
\* with the same dynamic flag, and leaves that store as it is.
C3_Idempotent ==
    (op.name = "SetKVS" /\ ret.status = "ok") =>
    \A r \in {SetKVS(cfg, Text(op.d), DefaultKVS)} :
        r.status = "ok" /\ r.dynamic = ret.dynamic /\ r.cfg = cfg

\* A dynamic directive that changed the store.
C3_Witness ==
    /\ op.name = "SetKVS"
    /\ ret.status = "ok"
    /\ ret.dynamic
    /\ cfg # before

\* C4 as stated: after a successful SetKVS on a stored sub-system/target,
\* every entry of the stored KVS whose key the directive does not name,
\* the state key included, is still in the stored KVS.
C4_UnnamedKeysKept ==
    (op.name = "SetKVS" /\ ret.status = "ok") =>
    \A s \in {op.d.subSys} :
    \A t \in {IF op.d.tgt = NoTarget THEN "_" ELSE op.d.tgt[1]} :
        t \in DOMAIN before[s] =>
        \A i \in DOMAIN before[s][t] :
            (\A j \in DOMAIN op.d.kvs : op.d.kvs[j].Key # before[s][t][i].Key) =>
            before[s][t][i] \in {cfg[s][t][j] : j \in DOMAIN cfg[s][t]}

\* C4: after a successful SetKVS on a stored sub-system/target, every entry
\* of the stored KVS whose key the directive does not name, other than the
\* state key, is still in the stored KVS; the state key, when the directive
\* does not name it, holds on.
C4_UnnamedKeysKeptButState ==
    (op.name = "SetKVS" /\ ret.status = "ok") =>
    \A s \in {op.d.subSys} :
    \A t \in {IF op.d.tgt = NoTarget THEN "_" ELSE op.d.tgt[1]} :
        t \in DOMAIN before[s] =>
        \A i \in DOMAIN before[s][t] :
            (\A j \in DOMAIN op.d.kvs : op.d.kvs[j].Key # before[s][t][i].Key) =>
            IF before[s][t][i].Key = "enable"
            THEN KV("enable", "on") \in {cfg[s][t][j] : j \in DOMAIN cfg[s][t]}
            ELSE before[s][t][i] \in {cfg[s][t][j] : j \in DOMAIN cfg[s][t]}

\* A target stored with the state off and an endpoint, and a directive that
\* names neither: the endpoint is kept and the state is on.
C4_Witness ==
    /\ op.name = "SetKVS"
    /\ ret.status = "ok"
    /\ op.d = Dir(NotifyWebhookSubSys, <<"t1">>, <<KV("auth_token", "secret123")>>)
    /\ "t1" \in DOMAIN before[NotifyWebhookSubSys]
    /\ KV("enable", "off") \in
           {before[NotifyWebhookSubSys]["t1"][i] : i \in DOMAIN before[NotifyWebhookSubSys]["t1"]}
    /\ KV("endpoint", "http://h") \in
           {cfg[NotifyWebhookSubSys]["t1"][i] : i \in DOMAIN cfg[NotifyWebhookSubSys]["t1"]}
    /\ KV("enable", "on") \in
           {cfg[NotifyWebhookSubSys]["t1"][i] : i \in DOMAIN cfg[NotifyWebhookSubSys]["t1"]}

\* C5 as stated: after a successful SetKVS the store has the addressed
\* entry, every key the directive names holds the directive's value in it,
\* and every key of the sub-system's default KVS is present.
C5_NamedKeysStored ==
    (op.name = "SetKVS" /\ ret.status = "ok") =>
    \A s \in {op.d.subSys} :
    \A t \in {IF op.d.tgt = NoTarget THEN "_" ELSE op.d.tgt[1]} :
        /\ t \in DOMAIN cfg[s]
        /\ \A j \in DOMAIN op.d.kvs :
               op.d.kvs[j] \in {cfg[s][t][i] : i \in DOMAIN cfg[s][t]}
        /\ \A j \in DOMAIN RegisteredDefaultKVS[s] :
               \E i \in DOMAIN cfg[s][t] :
                   cfg[s][t][i].Key = RegisteredDefaultKVS[s][j].Key

\* C6: once the directive is parsed and merged, SetKVS fails, naming the key
\* and the sub-system, exactly when some key the help list declares
\* non-optional is empty in the merged KVS and the target is enabled (its
\* state is on, or the defaults declare no state key); otherwise the merged
\* KVS is stored, an empty required key under the state off included.
C6_RequiredKeys ==
    op.name = "SetKVS" =>
    \A m \in {MergedKVS(before, Text(op.d), DefaultKVS)} :
        m.status = "ok" =>
        \A missing \in {{HelpSubSysMap[m.subSys][h].Key : h \in
                           {h \in DOMAIN HelpSubSysMap[m.subSys] :
                               /\ ~HelpSubSysMap[m.subSys][h].Optional
                               /\ \A i \in DOMAIN m.currKVS :
                                      m.currKVS[i].Key = HelpSubSysMap[m.subSys][h].Key
                                      => m.currKVS[i].Value = ""}}} :
        \A enabled \in {\/ KV("enable", "on") \in {m.currKVS[i] : i \in DOMAIN m.currKVS}
                        \/ \A i \in DOMAIN RegisteredDefaultKVS[m.subSys] :
                               RegisteredDefaultKVS[m.subSys][i].Key # "enable"} :
            IF missing # {} /\ enabled
            THEN /\ ret.status = "error"
                 /\ \E k \in missing :
                        ret.err = "'" \o k \o "' is not optional for '" \o m.subSys
                                  \o "' sub-system, please check '" \o m.subSys
                                  \o "' documentation"
                 /\ cfg = before
            ELSE /\ ret.status = "ok"
                 /\ cfg[m.subSys][m.tgt] = m.currKVS

\* A target stored with the state off and no endpoint, and a directive that
\* turns it on without one.
C6_Witness ==
    /\ op.name = "SetKVS"
    /\ op.d = Dir(NotifyWebhookSubSys, <<"t1">>, <<KV("auth_token", "secret123")>>)
    /\ "t1" \in DOMAIN before[NotifyWebhookSubSys]
    /\ KV("enable", "off") \in
           {before[NotifyWebhookSubSys]["t1"][i] : i \in DOMAIN before[NotifyWebhookSubSys]["t1"]}
    /\ KV("endpoint", "") \in
           {before[NotifyWebhookSubSys]["t1"][i] : i \in DOMAIN before[NotifyWebhookSubSys]["t1"]}
    /\ ret.status = "error"
    /\ ret.err = "'endpoint' is not optional for 'notify_webhook' sub-system, please check 'notify_webhook' documentation"

\* C7: DelKVS of notify_webhook:t on a store without that target returns
\* the already deleted error and changes nothing; on a store with it (which
\* SetKVS created) it succeeds and removes the target alone, after which
\* GetKVS of it returns the doesn't exist error and DelKVS of it the already
\* deleted error.
C7_DeleteTarget ==
    (op.name = "DelKVS" /\ op.d.subSys = NotifyWebhookSubSys /\ op.d.tgt # NoTarget) =>
    \A t \in {op.d.tgt[1]} :
        IF t \notin DOMAIN before[NotifyWebhookSubSys]
        THEN /\ ret.status = "error"
             /\ ret.err = "sub-system notify_webhook:" \o t \o " already deleted"
             /\ cfg = before
        ELSE /\ ret.status = "ok"
             /\ DOMAIN cfg = DOMAIN before
             /\ DOMAIN cfg[NotifyWebhookSubSys] = DOMAIN before[NotifyWebhookSubSys] \ {t}
             /\ \A k \in DOMAIN cfg : \A x \in DOMAIN cfg[k] : cfg[k][x] = before[k][x]
             /\ \A g \in GetKVS(cfg, "notify_webhook:" \o t, DefaultKVS) :
                    /\ g.status = "error"
                    /\ g.err = "sub-system target 'notify_webhook:" \o t \o "' doesn't exist"
             /\ \A r \in {DelKVS(cfg, "notify_webhook:" \o t)} :
                    /\ r.status = "error"
                    /\ r.err = "sub-system notify_webhook:" \o t \o " already deleted"
                    /\ r.cfg = cfg

\* A target that SetKVS created was deleted.
C7_Witness ==
    /\ op.name = "DelKVS"
    /\ op.d = Dir(NotifyWebhookSubSys, <<"t1">>, <<>>)
    /\ "t1" \in DOMAIN before[NotifyWebhookSubSys]
    /\ "t1" \notin DOMAIN cfg[NotifyWebhookSubSys]
    /\ ret.status = "ok"

\* C8: DelKVS of a name that is not a registered sub-system, with or without
\* a target, succeeds whether or not the store holds the name; afterwards
\* the store does not hold it, and holds every other sub-system as before.
C8_DeleteUnregistered ==
    (op.name = "DelKVS" /\ op.d.subSys \notin SubSystems /\ op.d.subSys # "") =>
        /\ ret.status = "ok"
        /\ DOMAIN cfg = DOMAIN before \ {op.d.subSys}
        /\ \A k \in DOMAIN cfg : cfg[k] = before[k]

\* The entry of a sub-system that is no longer registered was deleted.
C8_Witness ==
    /\ op.name = "DelKVS"
    /\ op.d.subSys = CrawlerSubSys
    /\ CrawlerSubSys \in DOMAIN before
    /\ CrawlerSubSys \notin DOMAIN cfg
    /\ ret.status = "ok"

\* C9: in the store RedactSensitiveInfo returns, every sub-system but
\* credentials has the targets of the original, and each target the keys of
\* the original in their order: a key flagged sensitive holds the marker
\* when its value was not empty and stays empty when it was, every other key
\* keeps its value; the original store is as it was before the call.
C9_Redaction ==
    op.name = "RedactSensitiveInfo" =>
        /\ cfg = before
        /\ \A k \in DOMAIN before \ {CredentialsSubSys} :
               /\ k \in DOMAIN ret.config
               /\ DOMAIN ret.config[k] = DOMAIN before[k]
               /\ \A t \in DOMAIN before[k] :
                      /\ DOMAIN ret.config[k][t] = DOMAIN before[k][t]
                      /\ \A i \in DOMAIN before[k][t] :
                             /\ ret.config[k][t][i].Key = before[k][t][i].Key
                             /\ ret.config[k][t][i].Value =
                                    IF /\ \E h \in DOMAIN HelpSubSysMap[k] :
                                              /\ HelpSubSysMap[k][h].Key = before[k][t][i].Key
                                              /\ HelpSubSysMap[k][h].Sensitive
                                       /\ before[k][t][i].Value # ""
                                    THEN "*redacted*"
                                    ELSE before[k][t][i].Value

\* A stored token is redacted next to an endpoint that is kept, and the
\* empty token of the default target stays empty.
C9_Witness ==
    /\ op.name = "RedactSensitiveInfo"
    /\ "t1" \in DOMAIN before[NotifyWebhookSubSys]
    /\ KV("auth_token", "secret123") \in
           {before[NotifyWebhookSubSys]["t1"][i] : i \in DOMAIN before[NotifyWebhookSubSys]["t1"]}
    /\ KV("auth_token", "*redacted*") \in
           {ret.config[NotifyWebhookSubSys]["t1"][i] :
               i \in DOMAIN ret.config[NotifyWebhookSubSys]["t1"]}
    /\ KV("endpoint", "http://h") \in
           {ret.config[NotifyWebhookSubSys]["t1"][i] :
               i \in DOMAIN ret.config[NotifyWebhookSubSys]["t1"]}
    /\ KV("auth_token", "") \in
           {ret.config[NotifyWebhookSubSys]["_"][i] :
               i \in DOMAIN ret.config[NotifyWebhookSubSys]["_"]}

\* C10 as stated: the store RedactSensitiveInfo returns has no entry for the
\* credentials sub-system, neither the sub-system key nor a target under it.
C10_NoCredentials ==
    op.name = "RedactSensitiveInfo" => CredentialsSubSys \notin DOMAIN ret.config

\* C11 as stated: merging the store Merge returned gives that store again,
\* with the same sub-systems, targets, keys and values.
C11_MergeIdempotent ==
    op.name = "Merge" => \A r \in Merge(cfg, DefaultKVS) : r = cfg

\* C12 as stated: for every registered sub-system and target of the old
\* store the store Merge returns has the entry, with every entry of the old
\* KVS in it and every default key the old KVS lacked at its default value;
\* and every registered sub-system has a default target.
C12_MergeBackFills ==
    op.name = "Merge" =>
        /\ \A s \in SubSystems : s \in DOMAIN cfg /\ "_" \in DOMAIN cfg[s]
        /\ \A s \in SubSystems \cap DOMAIN before :
           \A t \in DOMAIN before[s] :
               /\ t \in DOMAIN cfg[s]
               /\ \A i \in DOMAIN before[s][t] :
                      before[s][t][i] \in {cfg[s][t][j] : j \in DOMAIN cfg[s][t]}
               /\ \A d \in DOMAIN RegisteredDefaultKVS[s] :
                      (\A i \in DOMAIN before[s][t] :
                           before[s][t][i].Key # RegisteredDefaultKVS[s][d].Key)
                      => RegisteredDefaultKVS[s][d] \in {cfg[s][t][j] : j \in DOMAIN cfg[s][t]}

\* C13 as stated: a sub-system of the old store that is not registered is
\* absent from the store Merge returns when it was not renamed; when it was,
\* and the old store has no entry under the new name, each of its targets is
\* under the new name with every old entry and the new sub-system's missing
\* defaults.
C13_MergeRenames ==
    op.name = "Merge" =>
    \A s \in DOMAIN before \ SubSystems :
        IF s = "crawler"
        THEN "scanner" \notin DOMAIN before =>
             \A t \in DOMAIN before[s] :
                 /\ t \in DOMAIN cfg["scanner"]
                 /\ \A i \in DOMAIN before[s][t] :
                        before[s][t][i] \in
                            {cfg["scanner"][t][j] : j \in DOMAIN cfg["scanner"][t]}
                 /\ \A d \in DOMAIN RegisteredDefaultKVS["scanner"] :
                        (\A i \in DOMAIN before[s][t] :
                             before[s][t][i].Key # RegisteredDefaultKVS["scanner"][d].Key)
                        => RegisteredDefaultKVS["scanner"][d] \in
                               {cfg["scanner"][t][j] : j \in DOMAIN cfg["scanner"][t]}
        ELSE s \notin DOMAIN cfg

C15_SingleTargets ==
    /\ \A s \in SubSystemsSingleTargets \cap DOMAIN cfg : DOMAIN cfg[s] \subseteq {"_"}
    /\ (op.name = "SetKVS" /\ op.d.subSys \in SubSystemsSingleTargets /\ op.d.tgt # NoTarget)
       => ret.status = "error" /\ cfg = before

\* C16 as stated: SetKVS of a directive with an empty target name on a
\* multi-target sub-system returns an error and creates no target, and no
\* reachable store holds a target whose name is the empty string.
C16_EmptyTargetRejected ==
    /\ (op.name = "SetKVS" /\ op.d.subSys \in SubSystems \ SubSystemsSingleTargets
           /\ op.d.tgt = <<"">>)
       => ret.status = "error" /\ cfg = before
    /\ \A s \in DOMAIN cfg : "" \notin DOMAIN cfg[s]

\* C17 as stated: SetKVS of a registered sub-system[:target] without a
\* key/value tail returns an error and leaves the store as it was.
C17_NoTailIsError ==
    (op.name = "SetKVS" /\ op.d.subSys \in SubSystems /\ op.d.kvs = <<>>)
    => ret.status = "error" /\ cfg = before

\* C18: ResolveConfigParam returns the empty value with source Absent,
\* whatever the environment and the store hold, when the sub-system is not
\* identity_openid (the allow-list), is not in the default KVS table, or the
\* parameter is not a key of its default KVS; otherwise the source is
\* Default, Config or Env.
C18_Absent ==
    op.name = "ResolveConfigParam" =>
        IF \/ op.d.subSys # "identity_openid"
           \/ op.d.subSys \notin DOMAIN DefaultKVS
           \/ op.d.param \notin {"config_url", "claim_name"}
        THEN ret.value = "" /\ ret.cs = ValueSourceAbsent
        ELSE ret.cs \in {ValueSourceDef, ValueSourceCfg, ValueSourceEnv}

\* A sub-system off the allow-list, with the parameter in its defaults, in
\* the store and in the environment.
C18_Witness ==
    /\ op.name = "ResolveConfigParam"
    /\ op.d = [subSys |-> SiteSubSys, target |-> "_", param |-> "name"]
    /\ "MINIO_SITE_NAME" \in DOMAIN environ
    /\ ret.value = ""
    /\ ret.cs = ValueSourceAbsent

\* C19 as stated: GetKVS of a bare name that is not a registered sub-system
\* but with which two or more registered names start returns the error
\* 'unknown sub-system' and no targets.
C19_PrefixOfSeveralIsUnknown ==
    (/\ op.name = "GetKVS"
     /\ op.d.tgt = NoTarget
     /\ op.d.subSys \notin SubSystems
     /\ Cardinality({k \in SubSystems : HasPrefix(k, op.d.subSys)}) >= 2
     /\ op.d.subSys # "")
    => /\ ret.status = "error"
       /\ ret.err = "unknown sub-system " \o op.d.subSys
       /\ ret.targets = <<>>

\* C19 amended: GetKVS of a bare name that is not a registered sub-system
\* succeeds when a registered name starts with it, and lists the targets of
\* every sub-system of the help list whose name starts with it, the
\* sub-systems in help order; it returns 'unknown sub-system' and no targets
\* only when no registered name starts with it.
C19_PrefixListsEveryMatch ==
    (/\ op.name = "GetKVS"
     /\ op.d.tgt = NoTarget
     /\ op.d.subSys \notin SubSystems
     /\ op.d.subSys # "")
    => IF \E k \in SubSystems : HasPrefix(k, op.d.subSys)
       THEN /\ ret.status = "ok"
            /\ {SplitN2(ret.targets[i].SubSystem, ":")[1] : i \in DOMAIN ret.targets}
                   = {k \in SubSystems \cup {"crawler"} : HasPrefix(k, op.d.subSys)}
            /\ \A i, j \in DOMAIN ret.targets :
                   \A h, g \in DOMAIN HelpSubSysMap[""] :
                       (/\ i < j
                        /\ HelpSubSysMap[""][h].Key = SplitN2(ret.targets[i].SubSystem, ":")[1]
                        /\ HelpSubSysMap[""][g].Key = SplitN2(ret.targets[j].SubSystem, ":")[1])
                       => h <= g
       ELSE /\ ret.status = "error"
            /\ ret.err = "unknown sub-system " \o op.d.subSys
            /\ ret.targets = <<>>

\* The bare name s listed site and scanner.
C19_Witness ==
    /\ op.name = "GetKVS"
    /\ op.d = Dir("s", NoTarget, <<>>)
    /\ ret.status = "ok"
    /\ Len(ret.targets) >= 2
    /\ ret.targets[1].SubSystem = "site"
    /\ ret.targets[Len(ret.targets)].SubSystem = "scanner"

C21_DefaultTargetListed ==
    (op.name = "GetAvailableTargets" /\ op.d.subSys \in DOMAIN DefaultKVS)
    => ret.status = "ok" /\ "_" \in ret.names

\* The keys of the default KVS of the sub-system validated, and comment.
DefaultKeys ==
    {DefaultKVS[op.d.subSys][i].Key : i \in DOMAIN DefaultKVS[op.d.subSys]} \cup {"comment"}

\* DefaultKeys without the keys the call was told are deprecated.
NotDeprecatedKeys ==
    DefaultKeys \ {op.d.deprecatedKeys[i] : i \in DOMAIN op.d.deprecatedKeys}

\* The variables of the environment whose name starts with
\* MINIO_<SUBSYSTEM> and is neither MINIO_<SUBSYSTEM>_<PARAM> for a key of
\* K nor, for a sub-system that can have targets, such a name followed by
\* _ and a non-empty target.
Offenders(K) ==
    {n \in DOMAIN environ :
        /\ HasPrefix(n, "MINIO_" \o ToUpper(op.d.subSys))
        /\ \A k \in K :
               \A canon \in {"MINIO_" \o ToUpper(op.d.subSys) \o "_" \o ToUpper(k)} :
                   /\ n # canon
                   /\ ~(/\ op.d.subSys \notin {"credentials", "site", "scanner"}
                        /\ HasPrefix(n, canon \o "_")
                        /\ Len(n) > Len(canon) + 1)}

\* The entries stored under a target of the sub-system validated whose key
\* is not one of K.
StoredOutside(tgt, K) ==
    SelectSeq(cfg[op.d.subSys][tgt], LAMBDA e : e.Key \notin K)

\* C22 as stated: on a store whose keys are all valid (default keys and
\* comment, less the deprecated ones), Config.CheckValidKeys returns the
\* error 'environment variables are unknown' exactly when some variable
\* MINIO_<SUBSYSTEM>... is not the name of a valid parameter, with a
\* non-empty target or without.
C22_UnknownVariablesOfValidKeys ==
    (/\ op.name = "Config.CheckValidKeys"
     /\ op.d.subSys \in DOMAIN DefaultKVS
     /\ \A tgt \in DOMAIN cfg[op.d.subSys] : StoredOutside(tgt, NotDeprecatedKeys) = <<>>)
    => ((ret.status = "error"
            /\ ret.err = "The following environment variables are unknown")
        <=> Offenders(NotDeprecatedKeys) # {})

\* C22 amended: the same with the parameters of the environment check being
\* every default key and comment, the deprecated keys included.
C22_UnknownVariablesOfDefaultKeys ==
    (/\ op.name = "Config.CheckValidKeys"
     /\ op.d.subSys \in DOMAIN DefaultKVS
     /\ \A tgt \in DOMAIN cfg[op.d.subSys] : StoredOutside(tgt, NotDeprecatedKeys) = <<>>)
    => ((ret.status = "error"
            /\ ret.err = "The following environment variables are unknown")
        <=> Offenders(DefaultKeys) # {})

\* The variable of a deprecated key is accepted on a store whose keys are
\* all valid.
C22_Witness ==
    /\ op.name = "Config.CheckValidKeys"
    /\ op.d = [subSys |-> "site", deprecatedKeys |-> <<"name">>]
    /\ DOMAIN cfg["site"] = {}
    /\ "MINIO_SITE_NAME" \in DOMAIN environ
    /\ ret.status = "ok"

\* C23 as stated: when Config.CheckValidKeys fails, its error names every
\* unknown variable of the sub-system and every invalid stored key of every
\* target of the sub-system.
C23_EveryOffenderNamed ==
    (/\ op.name = "Config.CheckValidKeys"
     /\ op.d.subSys \in DOMAIN DefaultKVS
     /\ ret.status = "error")
    => /\ ret.names = Offenders(DefaultKeys)
       /\ \A tgt \in DOMAIN cfg[op.d.subSys] :
              \A i \in DOMAIN StoredOutside(tgt, NotDeprecatedKeys) :
                  \E j \in DOMAIN ret.targets :
                      /\ ret.targets[j].SubSystem = op.d.subSys \o ":" \o tgt
                      /\ \E h \in DOMAIN ret.targets[j].KVS :
                             ret.targets[j].KVS[h] = StoredOutside(tgt, NotDeprecatedKeys)[i]

\* C23 amended: when Config.CheckValidKeys fails, its error is that of the
\* first check that fails: every unknown variable and no stored key when
\* there is an unknown variable, else every invalid entry of one target
\* that holds one, and nothing of any other target.
C23_FirstFailureNamed ==
    (/\ op.name = "Config.CheckValidKeys"
     /\ op.d.subSys \in DOMAIN DefaultKVS
     /\ ret.status = "error")
    => IF Offenders(DefaultKeys) # {}
       THEN ret.names = Offenders(DefaultKeys) /\ ret.targets = <<>>
       ELSE /\ ret.names = {}
            /\ \E tgt \in DOMAIN cfg[op.d.subSys] :
                   /\ StoredOutside(tgt, NotDeprecatedKeys) # <<>>
                   /\ ret.targets =
                          <<[SubSystem |-> op.d.subSys \o ":" \o tgt,
                             KVS |-> StoredOutside(tgt, NotDeprecatedKeys)]>>

\* Two targets hold invalid keys and the error names the two of one.
C23_Witness ==
    /\ op.name = "Config.CheckValidKeys"
    /\ op.d.subSys = "notify_webhook"
    /\ {"_", "t1"} \subseteq DOMAIN cfg["notify_webhook"]
    /\ StoredOutside("_", NotDeprecatedKeys) # <<>>
    /\ ret.status = "error"
    /\ ret.targets = <<[SubSystem |-> "notify_webhook:t1",
                        KVS |-> <<KV("bogus", "1"), KV("stale", "2")>>]>>

\* C24: with no offending variable, Config.CheckValidKeys returns the error
\* 'invalid keys' exactly when some target of the sub-system holds a key
\* that is not a default key or comment, or that is deprecated, and the
\* error names such keys; CheckValidKeys on one KVS returns it exactly when
\* the KVS holds a key that is not a default key or comment.
C24_InvalidKeys ==
    /\ (/\ op.name = "Config.CheckValidKeys"
        /\ op.d.subSys \in DOMAIN DefaultKVS
        /\ Offenders(DefaultKeys) = {})
       => /\ ret.status \in {"ok", "error"}
          /\ ret.status = "error" <=>
                 \E tgt \in DOMAIN cfg[op.d.subSys] :
                     \E i \in DOMAIN cfg[op.d.subSys][tgt] :
                         \/ cfg[op.d.subSys][tgt][i].Key \notin DefaultKeys
                         \/ \E h \in DOMAIN op.d.deprecatedKeys :
                                op.d.deprecatedKeys[h] = cfg[op.d.subSys][tgt][i].Key
          /\ ret.status = "error" =>
                 /\ ret.err = "found invalid keys"
                 /\ Len(ret.targets) = 1
                 /\ Len(ret.targets[1].KVS) > 0
                 /\ \A i \in DOMAIN ret.targets[1].KVS :
                        ret.targets[1].KVS[i].Key \notin NotDeprecatedKeys
    /\ op.name = "CheckValidKeys"
       => /\ ret.status = "error" <=>
                 \E i \in DOMAIN cfg[op.d.subSys][op.d.tgt[1]] :
                     cfg[op.d.subSys][op.d.tgt[1]][i].Key \notin DefaultKeys
          /\ ret.status = "error" =>
                 /\ ret.err = "found invalid keys"
                 /\ \A i \in DOMAIN ret.targets[1].KVS :
                        ret.targets[1].KVS[i].Key \notin DefaultKeys

\* A target whose only invalid key is a deprecated one.
C24_Witness ==
    /\ op.name = "Config.CheckValidKeys"
    /\ op.d = [subSys |-> "site", deprecatedKeys |-> <<"name">>]
    /\ Offenders(DefaultKeys) = {}
    /\ ret.status = "error"
    /\ ret.targets = <<[SubSystem |-> "site:_", KVS |-> <<KV("name", "rack0")>>]>>

\* The directives of a file: its lines that are not empty and do not start
\* with the comment marker.
DirectivesOf(lines) == SelectSeq(lines, LAMBDA t : t # "" /\ SubSeq(t, 1, 1) # "#")

\* The sub-system a directive addresses: its text up to the first space or
\* colon.
AddressedSubSys(text) == SplitN2(SplitN2(text, " ")[1], ":")[1]

\* The store after the directives D from the k+1-th on are applied in order
\* to c up to the first that SetKVS does not accept, and the number of the
\* directives applied.
RECURSIVE ApplyInOrder(_, _, _)
ApplyOne(r, c, D, k) ==
    IF r.status = "ok" THEN ApplyInOrder(r.cfg, D, k + 1) ELSE [cfg |-> c, k |-> k]

ApplyInOrder(c, D, k) ==
    IF k = Len(D) THEN [cfg |-> c, k |-> k]
    ELSE ApplyOne(SetKVS(c, D[k + 1], DefaultKVS), c, D, k)

\* C25: when ReadConfig returns, the store is the one its directives give
\* when applied in line order up to the first that SetKVS rejects, empty
\* lines and comments skipped; with none rejected it returns dynOnly true
\* exactly when every directive addresses a dynamic sub-system, else it
\* returns an error and dynOnly false.
C25_ReadInOrder ==
    (op.name = "ReadConfig" /\ ret.status # "panic") =>
        \A a \in {ApplyInOrder(before, DirectivesOf(op.d), 0)} :
            /\ cfg = a.cfg
            /\ IF a.k = Len(DirectivesOf(op.d))
               THEN /\ ret.status = "ok"
                    /\ ret.dynamic <=>
                           \A i \in 1..a.k : AddressedSubSys(DirectivesOf(op.d)[i]) = "scanner"
               ELSE ret.status = "error" /\ ~ret.dynamic

\* A refused line between two accepted ones: the first is applied, the
\* third is not.
C25_Witness ==
    /\ op.name = "ReadConfig"
    /\ op.d = <<"scanner delay=40", "bogus name=x", "site name=rack1">>
    /\ ret.status = "error"
    /\ ~ret.dynamic
    /\ Get(before["scanner"]["_"], "delay") # "40"
    /\ Get(cfg["scanner"]["_"], "delay") = "40"
    /\ Get(cfg["site"]["_"], "name") # "rack1"

\* C26: once cp = c.Clone() is taken, a SetKVS, DelKVS, ReadConfig or
\* DelFrom on c leaves every sub-system, target, key and value of cp as it
\* is, and a SetKVS or DelKVS on cp leaves c as it is.
C26_SnapshotIndependent ==
    [][/\ op'.name \in {"SetKVS", "DelKVS", "ReadConfig", "DelFrom"} => snap' = snap
       /\ op'.name \in {"cp.SetKVS", "cp.DelKVS"} => cfg' = cfg]_vars

\* The writer changed c after the snapshot was taken, and the snapshot is
\* still the store as it was before.
C26_Witness ==
    /\ op.name \in {"SetKVS", "ReadConfig"}
    /\ ret.status = "ok"
    /\ snap = before
    /\ cfg # before

\* The finite map a KVS stands for: its keys, each with the value of an
\* entry that has the key.
MapOf(l) ==
    [k \in {l[i].Key : i \in DOMAIN l} |-> l[CHOOSE i \in DOMAIN l : l[i].Key = k].Value]

\* C27: a KVS built from the empty KVS by Set and Delete has no two entries
\* with one key; Set(k, v) gives the map with k at v and Delete(k) the map
\* without k, so that Get(k) is the value of the last Set(k, v) with no
\* Delete(k) after it and the empty string otherwise; Set on a key the KVS
\* has keeps the length and the place of every key; Delete of a key the
\* KVS does not have changes nothing.
C27_FiniteMap ==
    /\ \A i, j \in DOMAIN kvList : kvList[i].Key = kvList[j].Key => i = j
    /\ op.name = "KVS.Set" =>
           /\ MapOf(kvList) = MapSet(MapOf(before), op.d.Key, op.d.Value)
           /\ op.d.Key \in DOMAIN MapOf(before) =>
                  /\ Len(kvList) = Len(before)
                  /\ \A i \in DOMAIN before : kvList[i].Key = before[i].Key
    /\ op.name = "KVS.Delete" =>
           /\ MapOf(kvList) = [k \in DOMAIN MapOf(before) \ {op.d.Key} |-> MapOf(before)[k]]
           /\ op.d.Key \notin DOMAIN MapOf(before) => kvList = before
    /\ op.name = "KVS.Get" =>
           ret.value = IF op.d.Key \in DOMAIN MapOf(kvList)
                       THEN MapOf(kvList)[op.d.Key] ELSE ""

\* Set on a key that is not the last of three, with a new value.
C27_Witness ==
    /\ op.name = "KVS.Set"
    /\ Len(before) = 3
    /\ before[1].Key = op.d.Key
    /\ before[1].Value # op.d.Value
    /\ kvList[1] = op.d

\* C28 as stated: on the store New returns, GetKVS of the name of a
\* registered sub-system returns the default target of that sub-system
\* once, with a KVS equal to the sub-system's default KVS.
C28_FreshDefaultsOnce ==
    (/\ op.name = "GetKVS"
     /\ op.d.tgt = NoTarget
     /\ op.d.subSys \in SubSystems \cap DOMAIN DefaultKVS
     /\ cfg = New(DefaultKVS))
    => /\ ret.status = "ok"
       /\ Cardinality({i \in DOMAIN ret.targets :
                          ret.targets[i].SubSystem = op.d.subSys}) = 1
       /\ \A i \in DOMAIN ret.targets :
              ret.targets[i].SubSystem = op.d.subSys
              => ret.targets[i].KVS = DefaultKVS[op.d.subSys]

\* C29 as stated: on the store New returns, with the variable of the
\* parameter not set, ResolveConfigParam for the default target of
\* identity_openid returns the default value of the parameter with source
\* Default.
C29_FreshResolvesDefault ==
    (/\ op.name = "ResolveConfigParam"
     /\ op.d.subSys = "identity_openid"
     /\ op.d.target \in {"", "_"}
     /\ op.d.param \in {"config_url", "claim_name"}
     /\ ("MINIO_IDENTITY_OPENID_" \o ToUpper(op.d.param)) \notin DOMAIN environ
     /\ cfg = New(DefaultKVS))
    => /\ ret.value = Get(DefaultKVS["identity_openid"], op.d.param)
       /\ ret.cs = ValueSourceDef

\* The target a directive addresses: the default target when it names none.
AddressedTarget(d) == IF d.tgt = NoTarget THEN "_" ELSE d.tgt[1]

\* Whether the entry of sub-system s and target t is the same in two stores:
\* in both with one KVS, or in neither.
SameEntry(c1, c2, s, t) ==
    IF HasTarget(c1, s, t) THEN HasTarget(c2, s, t) /\ c1[s][t] = c2[s][t]
    ELSE ~HasTarget(c2, s, t)

\* Whether every entry but that of sub-system s and target t is the same
\* in two stores.
SameButEntry(c1, c2, s, t) ==
    /\ DOMAIN c1 = DOMAIN c2
    /\ \A s1 \in DOMAIN c1 :
           \A t1 \in DOMAIN c1[s1] \cup DOMAIN c2[s1] :
               (s1 # s \/ t1 # t) => SameEntry(c1, c2, s1, t1)

\* Directives to set and to delete entries, for the test of their order.
OrderedCalls ==
    [set : {TRUE},
     d : {Dir(ScannerSubSys, NoTarget, <<KV("delay", "20")>>),
          Dir(SiteSubSys, NoTarget, <<KV("name", "rack0"), KV("region", "us-east-1")>>),
          Dir(NotifyWebhookSubSys, <<"t1">>, <<KV("endpoint", "http://h")>>),
          Dir(NotifyWebhookSubSys, NoTarget, <<KV(Enable, EnableOff), KV(Comment, "off")>>)}]
    \cup [set : {FALSE},
          d : {Dir(NotifyWebhookSubSys, <<"t1">>, <<>>),
               Dir(NotifyWebhookSubSys, NoTarget, <<>>),
               Dir(CredentialsSubSys, NoTarget, <<>>)}]

\* The call x on the store c.
Called(c, x) ==
    IF x.set THEN SetKVS(c, Text(x.d), DefaultKVS) ELSE DelKVS(c, Text(x.d))

\* Whether the calls x and then y, both successful, leave the store c2
\* that y and then x, both successful, leave too.
SameInOrder(c, x, y) ==
    \A rx \in {Called(c, x)}, ry \in {Called(c, y)} :
        (rx.status = "ok" /\ ry.status = "ok") =>
            \A rxy \in {Called(rx.cfg, y)}, ryx \in {Called(ry.cfg, x)} :
                /\ rxy.status = "ok"
                /\ ryx.status = "ok"
                /\ rxy.cfg = ryx.cfg

\* C30: a successful SetKVS changes the entry of the sub-system and target
\* it addresses and no other; a successful DelKVS on a registered
\* sub-system removes that entry and changes no other; two successful
\* directives on different entries leave the same store in either order.
C30_Frame ==
    /\ (op.name = "SetKVS" /\ ret.status = "ok") =>
           /\ HasTarget(cfg, op.d.subSys, AddressedTarget(op.d))
           /\ SameButEntry(before, cfg, op.d.subSys, AddressedTarget(op.d))
    /\ (op.name = "DelKVS" /\ ret.status = "ok" /\ op.d.subSys \in SubSystems) =>
           /\ HasTarget(before, op.d.subSys, AddressedTarget(op.d))
           /\ ~HasTarget(cfg, op.d.subSys, AddressedTarget(op.d))
           /\ SameButEntry(before, cfg, op.d.subSys, AddressedTarget(op.d))
    /\ \A x, y \in OrderedCalls :
           (x.d.subSys # y.d.subSys \/ AddressedTarget(x.d) # AddressedTarget(y.d))
           => SameInOrder(cfg, x, y)

\* A target set next to another target of its sub-system.
C30_Witness ==
    /\ op.name = "SetKVS"
    /\ ret.status = "ok"
    /\ op.d.subSys = "notify_webhook"
    /\ AddressedTarget(op.d) = "t1"
    /\ HasTarget(before, "notify_webhook", "_")
    /\ cfg # before
    /\ cfg["notify_webhook"]["_"] = before["notify_webhook"]["_"]

\* The calls that only read the store they are called on.
ReadingCalls ==
    {"GetKVS", "GetAvailableTargets", "ResolveConfigParam", "Config.CheckValidKeys",
     "CheckValidKeys", "cp = c.Clone", "cp = c.Merge"}

\* C31: GetKVS, GetAvailableTargets, ResolveConfigParam, CheckValidKeys,
\* Clone and Merge leave the store they are called on as it was: the keys
\* GetKVS and Merge back-fill are in what they return and not in the store.
C31_ReceiverUnchanged == op.name \in ReadingCalls => cfg = before

\* GetKVS and Merge returned a target with a default key the store does not
\* hold for it.
C31_Witness ==
    /\ cfg = before
    /\ HasTarget(cfg, "notify_webhook", "t1")
    /\ ~Lookup(cfg["notify_webhook"]["t1"], "auth_token").ok
    /\ \/ /\ op.name = "GetKVS"
          /\ ret.status = "ok"
          /\ \E i \in DOMAIN ret.targets :
                 /\ ret.targets[i].SubSystem = "notify_webhook:t1"
                 /\ Lookup(ret.targets[i].KVS, "auth_token").ok
       \/ /\ op.name = "cp = c.Merge"
          /\ Lookup(snap["notify_webhook"]["t1"], "auth_token").ok

\* C32: no call on a store changes the default KVS table: it is after New,
\* Clone, SetKVS, GetKVS, Merge and RedactSensitiveInfo what was
\* registered, also for a store without an entry for a registered
\* sub-system whose default KVS has a non-empty sensitive value.
C32_RegistryUnchanged == DefaultKVS = RegisteredDefaultKVS

\* C33: the store Clone returns has the sub-systems, targets, keys and
\* values of the store it was called on, no more and no fewer, also when
\* that store has no entry for a registered sub-system.
C33_CloneEqual == op.name = "Clone" => ret.config = before

\* C34: Merge is deterministic: the store it returned is the only one it
\* can return for the old store and the registry, whatever the order in
\* which the maps are visited, also when the old store has entries under
\* the old and the new name of a renamed sub-system.
C34_MergeDeterministic == op.name = "Merge" => Merge(before, DefaultKVS) = {cfg}

\* The names of the variables that set a parameter of the default target
\* of the sub-system.
DefaultTargetVars(subSys, defKVS) ==
    {getEnvVarName(subSys, Default, defKVS[i].Key) : i \in DOMAIN defKVS}

\* The environment without the variables named.
EnvWithout(e, names) == [n \in DOMAIN e \ names |-> e[n]]

\* C35: a variable that is the default-target name of a declared parameter
\* never makes GetAvailableTargets report a target (the list is what it is
\* without these variables), also when the name of another declared
\* parameter, followed by `_`, begins the parameter's name; and
\* CheckValidKeys does not accept the default-target name of a declared
\* parameter followed by `_` and an empty target as a targeted variable.
C35_DefaultVariableNoTarget ==
    /\ (op.name = "GetAvailableTargets" /\ op.d.subSys \in DOMAIN DefaultKVS) =>
           \A vs \in {DefaultTargetVars(op.d.subSys, DefaultKVS[op.d.subSys])} :
               ret.names = GetAvailableTargets(before, op.d.subSys, DefaultKVS,
                                               EnvWithout(environ, vs)).names
    /\ (op.name = "Config.CheckValidKeys" /\ op.d.subSys \in DOMAIN DefaultKVS) =>
           \A vs \in {DefaultTargetVars(op.d.subSys, DefaultKVS[op.d.subSys])} :
               \A v \in vs :
                   (v \o "_") \in DOMAIN environ =>
                       ret.status = "error" /\ (v \o "_") \in ret.names

\* C36: GetKVS and DelKVS given text that is not empty and is white space
\* only return an error and leave the store as it was, and DelFrom returns
\* an error on such a line: none of them ends in a run-time panic.
C36_BlankIsError ==
    /\ (op.name \in {"GetKVS", "DelKVS"} /\ op.d.subSys \in Blanks) =>
           ret.status = "error" /\ cfg = before
    /\ (op.name = "DelFrom" /\ \E i \in DOMAIN op.d : op.d[i] \in Blanks) =>
           ret.status = "error"

\* The goroutines that are executing Update.
InUpdate == {g \in Callers : callers[g].pc = "update"}

\* C37: at most one goroutine executes the Update function of a timedValue
\* at any time; the other callers of Get wait for it and do not call
\* Update themselves.
C37_OneUpdater == Cardinality(InUpdate) <= 1

\* Whether the cached value is there and younger than the TTL, one second
\* standing for a TTL that is not positive.
Young ==
    /\ tv.value # NoValue
    /\ now - tv.lastUpdate < (IF tv.TTL > 0 THEN tv.TTL ELSE Second)

\* C38: while a cached value that is not nil is younger than the TTL (one
\* second when the TTL is not positive) Get returns it and does not call
\* Update; when Update returns an error Get returns Update's value and
\* error and the cached value and its time stay as they were; the cached
\* value and its time change only by a successful Update, to the value it
\* returned and the time of the clock.
C38_CachedOrFetched ==
    [][/\ \A g \in Callers :
            /\ (callers[g].pc = "rlocked" /\ callers'[g].pc # "rlocked" /\ Young) =>
                   callers'[g].v = tv.value
            /\ (callers[g].pc = "got" /\ callers[g].v # NoValue /\ callers'[g] # callers[g]) =>
                   /\ callers'[g] = Idle(Returned(callers[g].v, NoError))
                   /\ tv' = tv
            /\ (callers[g].pc = "updated" /\ callers[g].err # NoError
                    /\ callers'[g] # callers[g]) =>
                   /\ callers'[g] = Idle(Returned(callers[g].v, callers[g].err))
                   /\ tv' = tv
       /\ tv' # tv =>
            \E g \in Callers :
                /\ callers[g].pc = "locked"
                /\ callers[g].err = NoError
                /\ tv' = [tv EXCEPT !.value = callers[g].v, !.lastUpdate = now]
                /\ callers'[g] = Idle(Returned(callers[g].v, NoError))]_vars

\* One goroutine got the error of Update and another the cached value,
\* which is still there and young.
C38_Witness ==
    /\ Young
    /\ \E g, h \in Callers :
           /\ callers[g].pc = "idle"
           /\ callers[g].got.err # NoError
           /\ callers[g].got.v # tv.value
           /\ callers[h].pc = "idle"
           /\ callers[h].got = Returned(tv.value, NoError)

\* Whether x is a suffix of every string of the list.
SuffixOfAll(x, strs) == \A i \in DOMAIN strs : HasSuffix(strs[i], x)

\* C39: lcpSuffix returns the longest common suffix of its strings: for a
\* list that is not empty a suffix of every string such that no longer
\* string is a suffix of all of them, also when one string is a suffix of
\* another; for the empty list the empty string.
C39_LongestCommonSuffix ==
    op.name = "lcpSuffix" =>
        IF Len(op.d) = 0 THEN ret.value = ""
        ELSE /\ SuffixOfAll(ret.value, op.d)
             /\ \A n \in (Len(ret.value) + 1)..Len(op.d[1]) :
                    ~SuffixOfAll(SubSeq(op.d[1], Len(op.d[1]) - n + 1, Len(op.d[1])), op.d)

====
